---- MODULE Spec2Model ----
(***************************************************************************)
(* A model of scripts/coverage.py of hyperspot: the coverage driver, the   *)
(* instrumented server it supervises, the readiness prober, and the        *)
(* aggregation of llvm-cov file records.                                   *)
(*                                                                         *)
(* Time is counted in ticks of half a second (the shortest sleep of the    *)
(* script, wait_for_tcp's time.sleep(0.5)).                                *)
(***************************************************************************)
EXTENDS Integers, Sequences, FiniteSets, TLC

VARIABLES
    mode,          \* the sub-command: "unit", "e2e-local", "combined"
    skip_build,    \* --skip-build
    pc,            \* the driver's position
    exc,           \* the exception unwinding through the try/finally: "none", "SystemExit", "Exception"
    exit_code,     \* -1 while running, then the process exit status
    cleans,        \* number of `cargo llvm-cov clean --workspace` runs so far
    unit_rc,       \* outcome of the unit workload
    e2e_rc,        \* outcome of the integration workload
    written,       \* the report artifacts written so far
    fail_at,       \* the function in which the failure that ends the run arose, else "none"
    port_other,    \* a foreign process listens on the configured port
    leader,        \* the Popen'd process (session and group leader)
    child,         \* the process it spawned in the same group (the server binary)
    listening,     \* the server binary accepts connections on the port
    kill_pending,  \* the processes a SIGKILL was delivered to and that have not exited yet
    pid_owner,     \* who holds server_process.pid: "none", "server", "free", "other"
    sent,          \* every signal sent so far: <<stop_server call, signal, target>>
    stop_pc,       \* stop_server's position
    stop_calls,    \* number of stop_server calls so far
    port_warn,     \* the last stop_server printed the port-still-occupied warning
    elapsed,       \* ticks since the current readiness wait started
    path_idx,      \* wait_for_health: index of the next candidate path
    tcp_ok,        \* a TCP connect to the port has succeeded
    health_probes, \* an HTTP health probe has been issued
    ready,         \* a health probe was answered 2xx
    probe_err,     \* an exception escaped a readiness probe
    files_data,    \* aggregate_coverage_data: the file records of the llvm-cov JSON
    agg_pc,        \* aggregate_coverage_data: "idle", "loop", "done"
    agg_idx,       \* the index of the next record of the for loop
    individual_files, \* the list of file_stats built so far
    groups,        \* the dict of groups, as the list of its values in insertion order
    total_stats,   \* the running total
    expand_to_project, \* format_custom_coverage_report's expand_to_project
    exp_idx,       \* the index of the next file of the expansion loop
    partial,       \* the report artifacts whose writing was begun and not completed
    prior_data,    \* coverage data of an earlier run is on disk when the script starts
    config_bind_addr, \* modules.api_ingress.config.bind_addr as read from the config file
    port,          \* the port start_instrumented_server works with, 0 for None
    skip_env_check, \* --skip-env-check
    env_check,     \* main's prerequisite checks: "none", "no_tool", "skipped", "ready", "not_ready"
    run_pc,        \* two coverage runs on one port: the position of each
    run_server,    \* two coverage runs on one port: the server of each
    cf_pc,         \* path classification: "idle", "relative", "categorize", "done"
    cf_filepath,   \* the filename of a file record
    cf_rel_path,   \* make_relative_path's result
    cf_result,     \* categorize_file's result
    cell_pc,       \* format_coverage_cell: "idle", "call", "done"
    cell_args,     \* its arguments and the terminal and environment it runs in
    ci_pc,         \* ci.py e2e (local mode): where cmd_e2e is
    ci_elapsed,    \* seconds since the running wait_for_health began
    ci_server,     \* the process cmd_e2e started: "none", "running", "zombie", "reaped"
    ci_api,        \* GET /healthz at the base url answers 2xx
    ci_exit,       \* the exit status of ci.py, -1 while it runs
    ci_sigs,       \* what cmd_e2e has sent to the process it started
    mock_server,   \* mock_server.py: the global _mock_server
    docker_mode,   \* E2E_DOCKER_MODE is set
    ms_server,     \* per MockHTTPServer: self.server
    ms_thread,     \* self.server_thread
    ms_port,       \* self._actual_port
    sockets,       \* the listening sockets open in the process
    serving,       \* per MockHTTPServer: the threads running serve_forever
    mock_calls,    \* the last two calls made to the mock server module
    cell           \* the cell it returns

driverVars == <<mode, skip_build, pc, exc, exit_code, cleans, unit_rc, e2e_rc, written,
                fail_at>>
procVars   == <<leader, child, listening, kill_pending, pid_owner>>
stopVars   == <<sent, stop_pc, stop_calls, port_warn>>
probeVars  == <<elapsed, path_idx, tcp_ok, health_probes, ready, probe_err>>
expVars    == <<expand_to_project, exp_idx>>
aggVars    == <<files_data, agg_pc, agg_idx, individual_files, groups, total_stats, expVars>>
mainVars   == <<skip_env_check, env_check>>
repVars    == <<partial, prior_data>>
confVars   == <<config_bind_addr, port>>
runsVars   == <<run_pc, run_server>>
cfVars     == <<cf_pc, cf_filepath, cf_rel_path, cf_result>>
cellVars   == <<cell_pc, cell_args, cell>>
ciVars     == <<ci_pc, ci_elapsed, ci_server, ci_api, ci_exit, ci_sigs>>
mockVars   == <<mock_server, docker_mode, ms_server, ms_thread, ms_port, sockets, serving,
               mock_calls>>
\* The variables the coverage run leaves alone once main has called the command.
otherVars  == <<aggVars, mainVars, repVars, confVars, runsVars, cfVars, cellVars, ciVars, mockVars>>
\* The variables of a coverage run.
runVars    == <<driverVars, mainVars, repVars, confVars, port_other, procVars, stopVars,
               probeVars>>
vars == <<driverVars, port_other, procVars, stopVars, probeVars, otherVars>>

(***************************************************************************)
(* Paths.  A path string is the sequence of its tokens: the separators "/" *)
(* and "\\" and the names between them.                                    *)
(***************************************************************************)

\* str.replace("\\", "/")
replace_backslash(s) == [i \in 1..Len(s) |-> IF s[i] = "\\" THEN "/" ELSE s[i]]

\* str.startswith(prefix)
startswith(s, prefix) ==
    Len(s) >= Len(prefix) /\ SubSeq(s, 1, Len(prefix)) = prefix

\* s[n:]
drop(s, n) == SubSeq(s, n + 1, Len(s))

\* str.split('/'): the list of the parts between the "/" tokens (a part may be
\* empty).
RECURSIVE split(_)
split(s) ==
    IF \A i \in 1..Len(s) : s[i] # "/"
    THEN <<s>>
    ELSE LET k == CHOOSE i \in 1..Len(s) :
                    s[i] = "/" /\ \A j \in 1..(i - 1) : s[j] # "/"
         IN <<SubSeq(s, 1, k - 1)>> \o split(drop(s, k))

\* '/'.join(parts)
RECURSIVE join(_)
join(parts) ==
    IF Len(parts) = 0 THEN <<>>
    ELSE IF Len(parts) = 1 THEN parts[1]
    ELSE parts[1] \o <<"/">> \o join(Tail(parts))

\* PurePosixPath(s).parts without the anchor: empty and "." parts are dropped.
path_parts(s) == SelectSeq(split(s), LAMBDA part : part # <<>> /\ part # <<".">>)

is_absolute(s) == startswith(s, <<"/">>)

\* PROJECT_ROOT, an absolute directory.
project_root == <<"/", "ws">>

\* str(Path(s).relative_to(root)), or s itself when relative_to raises.
relative_to_or_self(s, root) ==
    LET sp == path_parts(s)
        rp == path_parts(root)
    IN IF is_absolute(s) = is_absolute(root) /\ startswith(sp, rp)
       THEN IF Len(sp) = Len(rp) THEN <<".">> ELSE join(drop(sp, Len(rp)))
       ELSE s

make_relative_path(filepath, root) ==
    LET s0 == replace_backslash(filepath)
        s  == IF startswith(s0, <<".", "/">>) THEN drop(s0, 2) ELSE s0
    IN IF \/ startswith(s, <<"libs", "/">>)
          \/ startswith(s, <<"modules", "/">>)
          \/ startswith(s, <<"apps", "/">>)
       THEN s
       ELSE relative_to_or_self(s, root)

\* Mutant of categorize_file: the group name is taken from parts[0].
categorize_file_first_part(rel_path0) ==
    LET rel_path == IF startswith(rel_path0, <<".", "/">>) THEN drop(rel_path0, 2)
                    ELSE rel_path0
        parts == split(rel_path)
    IN IF startswith(rel_path, <<"libs", "/">>)
       THEN IF Len(parts) >= 2 THEN <<"lib", parts[1]>> ELSE <<"file", <<>>>>
       ELSE IF startswith(rel_path, <<"modules", "/">>)
       THEN IF Len(parts) >= 2 THEN <<"module", parts[1]>> ELSE <<"file", <<>>>>
       ELSE IF startswith(rel_path, <<"apps", "/">>)
       THEN <<"file", <<>>>>
       ELSE <<"external", <<>>>>

\* categorize_file(rel_path): <<category, group_name>>; None is <<>>.
categorize_file(rel_path0) ==
    LET rel_path == IF startswith(rel_path0, <<".", "/">>) THEN drop(rel_path0, 2)
                    ELSE rel_path0
        parts == split(rel_path)
    IN IF startswith(rel_path, <<"libs", "/">>)
       THEN IF Len(parts) >= 2 THEN <<"lib", parts[2]>> ELSE <<"file", <<>>>>
       ELSE IF startswith(rel_path, <<"modules", "/">>)
       THEN IF Len(parts) >= 2 THEN <<"module", parts[2]>> ELSE <<"file", <<>>>>
       ELSE IF startswith(rel_path, <<"apps", "/">>)
       THEN <<"file", <<>>>>
       ELSE <<"external", <<>>>>

(***************************************************************************)
(* aggregate_coverage_data(files_data, project_root)                       *)
(***************************************************************************)

Metrics == {"regions", "functions", "lines"}

ZeroStats == [m \in Metrics |-> [covered |-> 0, total |-> 0]]

\* summary.get(metric, {}).get(key, 0)
summary_get(summary, metric, key) ==
    IF metric \in DOMAIN summary /\ key \in DOMAIN summary[metric]
    THEN summary[metric][key] ELSE 0

\* The file_stats dict of one record.
file_stats_of(file_data) ==
    [path |-> make_relative_path(file_data.filename, project_root),
     stats |-> [m \in Metrics |->
                  [covered |-> summary_get(file_data.summary, m, "covered"),
                   total |-> summary_get(file_data.summary, m, "count")]]]

\* stats + file_stats, metric by metric.
add_stats(acc, st) ==
    [m \in Metrics |-> [covered |-> acc[m].covered + st[m].covered,
                        total |-> acc[m].total + st[m].total]]

\* The key under which a file's group is kept in the groups dict.
group_key(category, group_name) == group_name

\* The key of a group held in the dict.
key_of(g) == group_key(g.type, g.name)

\* Mutant of is_skipped: the `continue` for external files is missing.
is_skipped_never(category) == FALSE

\* `if category == 'external': continue`
is_skipped(category) == category = "external"

\* groups after the record of `category`, `group_name` with `st`:
\* `if group_name not in groups: groups[group_name] = {...}`, then the sums.
groups_add(gs, category, group_name, st) ==
    LET key == group_key(category, group_name) IN
    IF \E i \in 1..Len(gs) : key_of(gs[i]) = key
    THEN [i \in 1..Len(gs) |->
            IF key_of(gs[i]) = key
            THEN [gs[i] EXCEPT !.stats = add_stats(gs[i].stats, st)]
            ELSE gs[i]]
    ELSE Append(gs, [name |-> group_name, type |-> category,
                     stats |-> add_stats(ZeroStats, st)])

\* One iteration of `for file_data in files_data`.
aggregate_coverage_data_loop ==
    /\ agg_pc = "loop"
    /\ agg_idx <= Len(files_data)
    /\ LET file_data == files_data[agg_idx]
           fs == file_stats_of(file_data)
           cat == categorize_file(fs.path)
           category == cat[1]
           group_name == cat[2]
       IN IF is_skipped(category)
          THEN UNCHANGED <<individual_files, groups, total_stats>>
          ELSE /\ individual_files' = Append(individual_files, fs)
               /\ groups' = IF category \in {"module", "lib"} /\ group_name # <<>>
                            THEN groups_add(groups, category, group_name, fs.stats)
                            ELSE groups
               /\ total_stats' = add_stats(total_stats, fs.stats)
    /\ agg_idx' = agg_idx + 1
    /\ UNCHANGED <<files_data, agg_pc, expVars, runVars, runsVars, cfVars, cellVars, ciVars, mockVars>>

\* The loop is over: `return individual_files, list(groups.values()), total_stats`.
aggregate_coverage_data_return ==
    /\ agg_pc = "loop"
    /\ agg_idx > Len(files_data)
    /\ agg_pc' = "done"
    /\ UNCHANGED <<files_data, agg_idx, individual_files, groups, total_stats, expVars,
                   runVars, runsVars, cfVars, cellVars, ciVars, mockVars>>

NoAgg ==
    /\ files_data = <<>> /\ agg_pc = "idle" /\ agg_idx = 1
    /\ individual_files = <<>> /\ groups = <<>> /\ total_stats = ZeroStats
    /\ expand_to_project = FALSE /\ exp_idx = 1

(***************************************************************************)
(* format_custom_coverage_report: the expansion to the whole project.      *)
(***************************************************************************)

\* The source tree: what enumerate_project_rs_files returns (the *.rs files
\* under libs/, then those under modules/, relative to the project root), each
\* with what count_non_empty_lines returns for it.
ProjectRsFiles ==
    << [rel |-> <<"libs", "/", "foo", "/", "a.rs">>, loc |-> 5],
       [rel |-> <<"libs", "/", "foo", "/", "b.rs">>, loc |-> 3],
       [rel |-> <<"libs", "/", "bar", "/", "e.rs">>, loc |-> 2],
       [rel |-> <<"modules", "/", "foo", "/", "c.rs">>, loc |-> 4],
       [rel |-> <<"modules", "/", "foo", "/", "z.rs">>, loc |-> 1],
       [rel |-> <<"modules", "/", "bar", "/", "d.rs">>, loc |-> 0] >>

\* `covered_paths = {f["path"] for f in individual_files}`, taken before the loop:
\* the loop appends only paths of the enumeration, which holds each path once.
covered_paths == {individual_files[i].path : i \in 1..Len(individual_files)}

\* The file_stats of a file without a record.
missing_file_stats(rel, loc_total) ==
    [path |-> rel,
     stats |-> [m \in Metrics |->
                  [covered |-> 0, total |-> IF m = "lines" THEN loc_total ELSE 0]]]

\* `for g in groups: if g["name"] == group_name and g["type"] == category`
expansion_found(gs, category, group_name) ==
    {i \in 1..Len(gs) : gs[i].name = group_name /\ gs[i].type = category}

\* groups after `found["lines"]["total"] += loc_total`, found being the first
\* group of that name and type, or a new group appended to the list.
groups_expand(gs, category, group_name, loc_total) ==
    LET hits == expansion_found(gs, category, group_name)
        gs1 == IF hits = {}
               THEN Append(gs, [name |-> group_name, type |-> category, stats |-> ZeroStats])
               ELSE gs
        k == IF hits = {} THEN Len(gs1) ELSE CHOOSE i \in hits : \A j \in hits : i <= j
    IN [gs1 EXCEPT ![k].stats.lines.total = @ + loc_total]

\* One iteration of `for rel in enumerate_project_rs_files(project_root)`.
expand_to_project_loop ==
    /\ agg_pc = "done"
    /\ expand_to_project
    /\ exp_idx <= Len(ProjectRsFiles)
    /\ LET rel == ProjectRsFiles[exp_idx].rel
           loc_total == ProjectRsFiles[exp_idx].loc
           cat == categorize_file(rel)
           category == cat[1]
           group_name == cat[2]
       IN IF rel \in covered_paths
          THEN UNCHANGED <<individual_files, groups, total_stats>>
          ELSE /\ individual_files' = Append(individual_files, missing_file_stats(rel, loc_total))
               /\ groups' = IF category \in {"module", "lib"} /\ group_name # <<>>
                            THEN groups_expand(groups, category, group_name, loc_total)
                            ELSE groups
               /\ total_stats' = [total_stats EXCEPT !.lines.total = @ + loc_total]
    /\ exp_idx' = exp_idx + 1
    /\ UNCHANGED <<files_data, agg_pc, agg_idx, expand_to_project,
                   runVars, runsVars, cfVars, cellVars, ciVars, mockVars>>

\* The expansion is over, or was not asked for: the report is built from
\* individual_files, groups and total.
build_report ==
    /\ agg_pc = "done"
    /\ ~expand_to_project \/ exp_idx > Len(ProjectRsFiles)
    /\ agg_pc' = "report"
    /\ UNCHANGED <<files_data, agg_idx, individual_files, groups, total_stats, expVars,
                   runVars, runsVars, cfVars, cellVars, ciVars, mockVars>>

(***************************************************************************)
(* The classification of one file name, as aggregate_coverage_data does it *)
(* for each record: make_relative_path, then categorize_file.              *)
(***************************************************************************)

NoClassify ==
    /\ cf_pc = "idle" /\ cf_filepath = <<>> /\ cf_rel_path = <<>> /\ cf_result = <<>>

notCf == <<driverVars, port_other, procVars, stopVars, probeVars,
           aggVars, mainVars, repVars, confVars, runsVars, cellVars, ciVars, mockVars>>

\* `rel_path = make_relative_path(filename, project_root)`
make_relative_path_call ==
    /\ cf_pc = "relative"
    /\ cf_rel_path' = make_relative_path(cf_filepath, project_root)
    /\ cf_pc' = "categorize"
    /\ UNCHANGED <<cf_filepath, cf_result, notCf>>

\* `category, group_name = categorize_file(rel_path)`
categorize_file_call ==
    /\ cf_pc = "categorize"
    /\ cf_result' = categorize_file(cf_rel_path)
    /\ cf_pc' = "done"
    /\ UNCHANGED <<cf_filepath, cf_rel_path, notCf>>

(***************************************************************************)
(* format_coverage_cell(covered, total, threshold, cell_width, use_color)  *)
(***************************************************************************)

COVERAGE_THRESHOLD == 70

NoCell == cell_pc = "idle" /\ cell_args = <<>> /\ cell = <<>>

notCell == <<driverVars, port_other, procVars, stopVars, probeVars,
             aggVars, mainVars, repVars, confVars, runsVars, cfVars, ciVars, mockVars>>

\* int(round(n / d)) for naturals n and d > 0: Python's round goes to the
\* nearest integer and, on a tie, to the even one.  (covered / total) * 100.0
\* is computed in floating point; for the totals considered here the only ties
\* are multiples of 1/8, which the float arithmetic represents exactly.
round_half_even(n, d) ==
    LET q == n \div d
        r == n % d
    IN IF 2 * r < d THEN q
       ELSE IF 2 * r > d THEN q + 1
       ELSE IF q % 2 = 0 THEN q ELSE q + 1

\* Mutant of percent_of: int(x) without round truncates.
percent_of_truncated(covered, total) ==
    IF total = 0 THEN 0 ELSE (100 * covered) \div total

\* `percent = 0 if total == 0 else int(round((covered / total) * 100.0))`
percent_of(covered, total) ==
    IF total = 0 THEN 0 ELSE round_half_even(100 * covered, total)

\* Mutant of below_threshold: `<=` for `<`.
below_or_at_threshold(percent, threshold) == percent <= threshold

\* `percent < threshold`
below_threshold(percent, threshold) == percent < threshold

\* supports_color() in the environment of the call `a`: standard output is a
\* terminal and COLORTERM is truecolor or 24bit, or TERM contains "color"
\* (TERM is given as its pieces, "color" being one of them or not).
supports_color(a) ==
    IF ~a.isatty THEN FALSE
    ELSE IF a.COLORTERM \in {"truecolor", "24bit"} THEN TRUE
    ELSE IF \E i \in 1..Len(a.TERM) : a.TERM[i] = "color" THEN TRUE
    ELSE FALSE

\* The cell, as its parts: the warning character, the percentage and the missed
\* count of the text, and the color of the escape sequence around it ("none"
\* when the text is only padded).
format_coverage_cell ==
    /\ cell_pc = "call"
    /\ LET a == cell_args
           percent == percent_of(a.covered, a.total)
       IN cell' = [warning |-> IF below_threshold(percent, a.threshold) THEN "!" ELSE " ",
                   percent |-> percent,
                   missed |-> a.total - a.covered,
                   color |-> IF a.use_color /\ supports_color(a)
                             THEN IF below_threshold(percent, a.threshold)
                                  THEN "red" ELSE "green"
                             ELSE "none"]
    /\ cell_pc' = "done"
    /\ UNCHANGED <<cell_args, notCell>>

(***************************************************************************)
(* ci.py: cmd_e2e in local mode.  It looks for a server that already       *)
(* answers, starts one when none does, waits for it, runs pytest and stops *)
(* the server it started.  Time is in seconds.                             *)
(***************************************************************************)

NoCi ==
    /\ ci_pc = "idle" /\ ci_elapsed = 0 /\ ci_server = "none" /\ ci_api = FALSE
    /\ ci_exit = -1 /\ ci_sigs = <<>>

notCi == <<driverVars, port_other, procVars, stopVars, probeVars,
           aggVars, mainVars, repVars, confVars, runsVars, cfVars, cellVars, mockVars>>

ExistingServerTimeout == 5      \* wait_for_health(base_url, timeout_secs=5)
StartedServerTimeout == 30      \* wait_for_health(base_url, timeout_secs=30)
CiUrlopenTimeout == 1           \* urlopen(url, timeout=1)
CiSleep == 1                    \* time.sleep(1)

\* One turn of the loop of wait_for_health: a 2xx answer returns (to
\* `returned`); a failed attempt takes up to the urlopen timeout; then
\* sys.exit(1) (to `exited`) when more than timeout_secs have passed, else the
\* sleep.
wait_for_health(timeout_secs, returned, exited) ==
    IF ci_api
    THEN ci_pc' = returned /\ ci_elapsed' = 0
    ELSE \E d \in 0..CiUrlopenTimeout :
            IF ci_elapsed + d > timeout_secs
            THEN ci_pc' = exited /\ ci_elapsed' = 0
            ELSE ci_elapsed' = ci_elapsed + d + CiSleep /\ UNCHANGED ci_pc

\* try: wait_for_health(base_url, timeout_secs=5); except SystemExit: start one.
cmd_e2e_wait_existing ==
    /\ ci_pc = "wait_existing"
    /\ wait_for_health(ExistingServerTimeout, "pytest", "popen")
    /\ UNCHANGED <<ci_server, ci_api, ci_exit, ci_sigs, notCi>>

\* server_process = subprocess.Popen(server_cmd, ...)
cmd_e2e_popen ==
    /\ ci_pc = "popen"
    /\ ci_server' = "running"
    /\ ci_pc' = "wait_started"
    /\ UNCHANGED <<ci_elapsed, ci_api, ci_exit, ci_sigs, notCi>>

\* wait_for_health(base_url, timeout_secs=30), in the except clause: its
\* sys.exit(1) is caught by nothing and ends ci.py.
cmd_e2e_wait_started ==
    /\ ci_pc = "wait_started"
    /\ wait_for_health(StartedServerTimeout, "pytest", "exit")
    /\ ci_exit' = IF ci_pc' = "exit" THEN 1 ELSE ci_exit
    /\ UNCHANGED <<ci_server, ci_api, ci_sigs, notCi>>

\* result = run_cmd_allow_fail(pytest_cmd, env=env); exit_code = result.returncode
cmd_e2e_pytest ==
    /\ ci_pc = "pytest"
    /\ \E returncode \in {0, 1} : ci_exit' = returncode
    /\ ci_pc' = IF ci_server # "none" THEN "terminate" ELSE "exit"
    /\ UNCHANGED <<ci_elapsed, ci_server, ci_api, ci_sigs, notCi>>

\* server_process.terminate(): Popen polls first and signals only a process
\* that has not exited.
cmd_e2e_terminate ==
    /\ ci_pc = "terminate"
    /\ IF ci_server = "running"
       THEN ci_sigs' = Append(ci_sigs, "SIGTERM") /\ UNCHANGED ci_server
       ELSE ci_server' = "reaped" /\ UNCHANGED ci_sigs
    /\ ci_pc' = "wait"
    /\ UNCHANGED <<ci_elapsed, ci_api, ci_exit, notCi>>

\* server_process.wait(timeout=10) returns.
cmd_e2e_wait ==
    /\ ci_pc = "wait"
    /\ ci_server \in {"zombie", "reaped"}
    /\ ci_server' = "reaped"
    /\ ci_pc' = "exit"
    /\ UNCHANGED <<ci_elapsed, ci_api, ci_exit, ci_sigs, notCi>>

\* server_process.wait(timeout=10) raises TimeoutExpired: server_process.kill().
cmd_e2e_kill ==
    /\ ci_pc = "wait"
    /\ ci_server = "running"
    /\ ci_sigs' = Append(ci_sigs, "SIGKILL")
    /\ ci_pc' = "wait_killed"
    /\ UNCHANGED <<ci_elapsed, ci_server, ci_api, ci_exit, notCi>>

\* server_process.wait() after the kill.
cmd_e2e_wait_killed ==
    /\ ci_pc = "wait_killed"
    /\ ci_server = "zombie"
    /\ ci_server' = "reaped"
    /\ ci_pc' = "exit"
    /\ UNCHANGED <<ci_elapsed, ci_api, ci_exit, ci_sigs, notCi>>

cmd_e2e ==
    \/ cmd_e2e_wait_existing
    \/ cmd_e2e_popen
    \/ cmd_e2e_wait_started
    \/ cmd_e2e_pytest
    \/ cmd_e2e_terminate
    \/ cmd_e2e_wait
    \/ cmd_e2e_kill
    \/ cmd_e2e_wait_killed

\* The started server has come up and answers /healthz.
CiServerReady ==
    /\ ci_server = "running" /\ ~ci_api
    /\ ci_api' = TRUE
    /\ UNCHANGED <<ci_pc, ci_elapsed, ci_server, ci_exit, ci_sigs, notCi>>

\* The started server exits: it failed to build or to start, or it was
\* signalled.
CiServerExits ==
    /\ ci_server = "running"
    /\ ci_server' = "zombie"
    /\ ci_api' = FALSE
    /\ UNCHANGED <<ci_pc, ci_elapsed, ci_exit, ci_sigs, notCi>>

(***************************************************************************)
(* testing/e2e/helpers/mock_server.py: MockHTTPServer and the global       *)
(* instance behind start_mock_server and stop_mock_server.  "standalone"   *)
(* is an instance driven directly, as run_mock_server.py does on port      *)
(* 8080; "global" is the instance the module keeps in _mock_server (a new  *)
(* one and one just stopped have the same fields).                         *)
(***************************************************************************)

Instances == {"standalone", "global"}

EphemeralPorts == {"49152", "49153"}

NoMock ==
    /\ mock_server = "None" /\ docker_mode = FALSE
    /\ ms_server = [i \in Instances |-> "None"]
    /\ ms_thread = [i \in Instances |-> "None"]
    /\ ms_port = [i \in Instances |-> "None"]
    /\ sockets = {} /\ serving = [i \in Instances |-> 0]
    /\ mock_calls = <<>>

notMock == <<driverVars, port_other, procVars, stopVars, probeVars,
             aggVars, mainVars, repVars, confVars, runsVars, cfVars, cellVars, ciVars>>

\* The ports HTTPServer((self.host, self.port), handler) can bind: the port
\* asked for, or with port 0 any free port the system picks.
bindable(i) ==
    (IF i = "standalone" THEN {"8080"} ELSE EphemeralPorts) \ {s.port : s \in sockets}

\* The outcomes of the HTTPServer constructor: a port, or its OSError.
BindOutcomes(i) == bindable(i) \cup {"OSError"}

\* Mutant of already_running: start does not look at self.server.
already_running_unchecked(i) == FALSE

\* `self.server is not None`
already_running(i) == ms_server[i] # "None"

\* What MockHTTPServer.start raises.
start_exc(i, bound) ==
    IF already_running(i) THEN "RuntimeError"
    ELSE IF bound = "OSError" THEN "OSError"
    ELSE "none"

\* MockHTTPServer.start: the server is created (bound and listening), its
\* port recorded, its thread started.
start(i, bound) ==
    IF start_exc(i, bound) # "none"
    THEN UNCHANGED <<ms_server, ms_thread, ms_port, sockets, serving>>
    ELSE /\ ms_server' = [ms_server EXCEPT ![i] = "HTTPServer"]
         /\ ms_port' = [ms_port EXCEPT ![i] = bound]
         /\ ms_thread' = [ms_thread EXCEPT ![i] = "Thread"]
         /\ sockets' = sockets \cup {[owner |-> i, port |-> bound]}
         /\ serving' = [serving EXCEPT ![i] = @ + 1]

\* MockHTTPServer.stop: shutdown ends serve_forever, the thread is joined, the
\* three fields are cleared; the HTTPServer loses its last reference and its
\* socket is closed with it.
stop(i) ==
    IF ms_server[i] = "None"
    THEN UNCHANGED <<ms_server, ms_thread, ms_port, sockets, serving>>
    ELSE /\ ms_server' = [ms_server EXCEPT ![i] = "None"]
         /\ ms_thread' = [ms_thread EXCEPT ![i] = "None"]
         /\ ms_port' = [ms_port EXCEPT ![i] = "None"]
         /\ sockets' = sockets \ {[owner |-> i, port |-> ms_port[i]]}
         /\ serving' = [serving EXCEPT ![i] = @ - 1]

get_port(i) == IF ms_port[i] = "None" THEN "RuntimeError" ELSE ms_port[i]

get_base_url(i) ==
    IF ms_port[i] = "None" THEN "RuntimeError" ELSE "http://127.0.0.1:" \o ms_port[i]

is_docker_mode == docker_mode

get_mock_base_url ==
    IF is_docker_mode THEN "http://mock:8080"
    ELSE IF mock_server = "None" THEN "RuntimeError"
    ELSE get_base_url("global")

\* The record of a call: the function, the instance, what it raised and
\* whether the instance was running when it was called.
Called(op, i, e) ==
    LET all == Append(mock_calls, [op |-> op, inst |-> i, exc |-> e,
                                   running |-> ms_server[i] # "None"])
    IN mock_calls' = IF Len(all) > 2 THEN Tail(all) ELSE all

\* server.start() on the standalone instance.
call_start ==
    /\ \E bound \in BindOutcomes("standalone") :
         /\ start("standalone", bound)
         /\ Called("start", "standalone", start_exc("standalone", bound))
    /\ UNCHANGED <<mock_server, docker_mode, notMock>>

\* server.stop() on the standalone instance.
call_stop ==
    /\ stop("standalone")
    /\ Called("stop", "standalone", "none")
    /\ UNCHANGED <<mock_server, docker_mode, notMock>>

\* start_mock_server: the new instance is put into _mock_server and then
\* started.
start_mock_server ==
    /\ IF is_docker_mode \/ mock_server # "None"
       THEN /\ Called("start_mock_server", "global", "RuntimeError")
            /\ UNCHANGED <<mock_server, ms_server, ms_thread, ms_port, sockets, serving>>
       ELSE /\ mock_server' = "MockHTTPServer"
            /\ \E bound \in BindOutcomes("global") :
                 /\ start("global", bound)
                 /\ Called("start_mock_server", "global", start_exc("global", bound))
    /\ UNCHANGED <<docker_mode, notMock>>

\* stop_mock_server
stop_mock_server ==
    /\ IF mock_server = "None"
       THEN UNCHANGED <<mock_server, ms_server, ms_thread, ms_port, sockets, serving>>
       ELSE stop("global") /\ mock_server' = "None"
    /\ Called("stop_mock_server", "global", "none")
    /\ UNCHANGED <<docker_mode, notMock>>

(***************************************************************************)
(* Coverage runs started side by side with the same configured port, each  *)
(* reduced to what it does to the port: check_port_available, the Popen of *)
(* start_instrumented_server, the server's own bind, the readiness wait    *)
(* and stop_server.                                                        *)
(***************************************************************************)

NumRuns == 2

Runs == 1..NumRuns

NoRuns ==
    /\ run_pc = [r \in Runs |-> "none"]
    /\ run_server = [r \in Runs |-> "none"]

\* The port is taken: by the socket of a check_port_available that has bound it
\* and not closed it yet, or by a server.
PortBound == \E r \in Runs : run_pc[r] = "bound" \/ run_server[r] = "listening"

\* The run has a server session: from the Popen to the return of stop_server.
SessionActive(r) == run_pc[r] \in {"wait_tcp", "tests", "stopping"}

notRuns == <<driverVars, port_other, procVars, stopVars, probeVars,
             aggVars, mainVars, repVars, confVars, cfVars, cellVars, ciVars, mockVars>>

\* A coverage run is started and reaches start_instrumented_server.
run_starts(r) ==
    /\ run_pc[r] = "none"
    /\ run_pc' = [run_pc EXCEPT ![r] = "check"]
    /\ UNCHANGED <<run_server, notRuns>>

\* check_port_available: s.bind(("127.0.0.1", port)); OSError -> sys.exit(1).
check_port_available_bind(r) ==
    /\ run_pc[r] = "check"
    /\ run_pc' = [run_pc EXCEPT ![r] = IF PortBound THEN "failed" ELSE "bound"]
    /\ UNCHANGED <<run_server, notRuns>>

\* check_port_available: the with statement closes the socket; the port is free
\* again.
check_port_available_close(r) ==
    /\ run_pc[r] = "bound"
    /\ run_pc' = [run_pc EXCEPT ![r] = "popen"]
    /\ UNCHANGED <<run_server, notRuns>>

\* subprocess.Popen(["cargo", "llvm-cov", "run", ...], start_new_session=True)
\* and the return of start_instrumented_server.
Popen(r) ==
    /\ run_pc[r] = "popen"
    /\ run_pc' = [run_pc EXCEPT ![r] = "wait_tcp"]
    /\ run_server' = [run_server EXCEPT ![r] = "starting"]
    /\ UNCHANGED notRuns

\* The server binary, once built, binds the port, or exits when it cannot.
server_binds(r) ==
    /\ run_server[r] = "starting"
    /\ run_server' = [run_server EXCEPT ![r] = IF PortBound THEN "exited" ELSE "listening"]
    /\ UNCHANGED <<run_pc, notRuns>>

\* wait_for_tcp / wait_for_health: ready as soon as the port answers, whoever
\* serves it; or the wait times out and the finally clause is entered.
wait_for_ready(r) ==
    /\ run_pc[r] = "wait_tcp"
    /\ \/ /\ \E q \in Runs : run_server[q] = "listening"
          /\ run_pc' = [run_pc EXCEPT ![r] = "tests"]
       \/ /\ \A q \in Runs : run_server[q] # "listening"
          /\ run_pc' = [run_pc EXCEPT ![r] = "stopping"]
    /\ UNCHANGED <<run_server, notRuns>>

\* run_e2e_tests returns and the finally clause is entered.
run_e2e_tests(r) ==
    /\ run_pc[r] = "tests"
    /\ run_pc' = [run_pc EXCEPT ![r] = "stopping"]
    /\ UNCHANGED <<run_server, notRuns>>

\* stop_server returns.
stop_server_returns(r) ==
    /\ run_pc[r] = "stopping"
    /\ run_pc' = [run_pc EXCEPT ![r] = "done"]
    /\ run_server' = [run_server EXCEPT ![r] = "stopped"]
    /\ UNCHANGED notRuns

(***************************************************************************)
(* The server's process group.                                             *)
(***************************************************************************)

\* The members of the server's process group that are alive.
Alive == (IF leader = "running" THEN {"leader"} ELSE {})
            \cup (IF child = "running" THEN {"child"} ELSE {})

\* What os.getpgid(server_process.pid) names: the server's own group while the
\* pid is the leader's (running, or a zombie not yet reaped); after the reap the
\* pid is free (ProcessLookupError) until the system gives it to another process.
getpgid == IF leader \in {"running", "zombie"} THEN "group"
           ELSE IF pid_owner = "other" THEN "foreign"
           ELSE "ESRCH"

\* subprocess.Popen(..., start_new_session=True): the launched command leads a
\* session and a process group of its own.
start_new_session == TRUE

\* The processes a signal to `target` is delivered to, by the rules of the
\* system: every member of the addressed group (the orchestrator among them
\* if the server had stayed in its group), the one process, or the members of
\* an unrelated process's group ("other").
Delivered(target) ==
    IF target = "group"
    THEN {"leader", "child"} \cup (IF start_new_session THEN {} ELSE {"orchestrator"})
    ELSE IF target = "proc" THEN {"leader"}
    ELSE IF target = "foreign" THEN {"other"}
    ELSE {}

\* Popen.poll() is not None: send_signal, terminate and kill then do nothing.
returncode_set == leader = "reaped"

\* A process of the group exits: on its own, in its SIGINT handler, or killed.
\* The leader stays a zombie, holding its pid, until Popen.wait() reaps it.
ProcExits(p) ==
    /\ p \in Alive
    /\ IF p = "leader"
       THEN leader' = "zombie" /\ UNCHANGED <<child, listening>>
       ELSE child' = "dead" /\ listening' = FALSE /\ UNCHANGED leader
    /\ kill_pending' = kill_pending \ {p}
    /\ UNCHANGED <<pid_owner, driverVars, port_other, otherVars, stopVars, probeVars>>

\* `cargo llvm-cov run` has built the server binary and spawns it.
ChildSpawns ==
    /\ leader = "running" /\ child = "none"
    /\ child' = "running"
    /\ UNCHANGED <<leader, listening, kill_pending, pid_owner,
                   driverVars, port_other, otherVars, stopVars, probeVars>>

\* The server binary binds its port.
ServerListens ==
    /\ child = "running" /\ ~listening /\ ~port_other
    /\ listening' = TRUE
    /\ UNCHANGED <<leader, child, kill_pending, pid_owner,
                   driverVars, port_other, otherVars, stopVars, probeVars>>

\* The system gives the reaped leader's pid to an unrelated process.
PidReused ==
    /\ pid_owner = "free"
    /\ pid_owner' = "other"
    /\ UNCHANGED <<leader, child, listening, kill_pending,
                   driverVars, port_other, otherVars, stopVars, probeVars>>

(***************************************************************************)
(* stop_server(server_process, port, log_file)                             *)
(***************************************************************************)

\* socket.create_connection(("127.0.0.1", port)) succeeds.
PortAccepts == listening \/ port_other

\* Mutant of SigintTarget: the graceful signal is server_process.terminate()
\* alone, to the launched process and not to its group.
SigintTargetTerminate == IF returncode_set THEN "nobody" ELSE "proc"

\* The target of the graceful signal: the process group of the pid; when
\* getpgid raises, server_process.terminate(), which signals the process itself
\* unless its return code is already known.
SigintTarget == IF getpgid # "ESRCH" THEN getpgid
                ELSE IF returncode_set THEN "nobody" ELSE "proc"

\* Mutant of SigkillTarget: the drain timeout is caught and nothing is sent.
SigkillTargetNobody == "nobody"

\* The target of the forced signal (os.killpg, else server_process.kill()).
SigkillTarget == IF getpgid # "ESRCH" THEN getpgid
                 ELSE IF returncode_set THEN "nobody" ELSE "proc"

\* The processes of the server's group a signal to `target` reaches.
Reached(target) == IF target = "group" THEN Alive
                   ELSE IF target = "proc" THEN Alive \cap {"leader"}
                   ELSE {}

Log(sig, target) == IF target = "nobody" THEN sent
                    ELSE Append(sent, <<stop_calls, sig, target>>)

\* os.killpg(os.getpgid(pid), SIGINT), falling back to terminate().
stop_server_sigint ==
    /\ stop_pc = "sigint"
    /\ sent' = Log("SIGINT", SigintTarget)
    /\ stop_pc' = "wait"
    /\ UNCHANGED <<stop_calls, port_warn, procVars, driverVars, port_other, otherVars, probeVars>>

\* server_process.wait(timeout=15) returns: the process has exited (it is
\* reaped now) or had been reaped before.
stop_server_wait ==
    /\ stop_pc = "wait"
    /\ leader \in {"zombie", "reaped"}
    /\ leader' = "reaped"
    /\ pid_owner' = IF leader = "zombie" THEN "free" ELSE pid_owner
    /\ stop_pc' = "portcheck"
    /\ UNCHANGED <<child, listening, kill_pending, sent, stop_calls, port_warn,
                   driverVars, port_other, otherVars, probeVars>>

\* server_process.wait(timeout=15) raises TimeoutExpired: the process is still
\* running after the drain wait; the kill signal goes to the group.
stop_server_kill ==
    /\ stop_pc = "wait"
    /\ leader = "running"
    /\ sent' = Log("SIGKILL", SigkillTarget)
    /\ kill_pending' = kill_pending \cup Reached(SigkillTarget)
    /\ stop_pc' = "wait_killed"
    /\ UNCHANGED <<leader, child, listening, pid_owner, stop_calls, port_warn,
                   driverVars, port_other, otherVars, probeVars>>

\* server_process.wait(), without a timeout, returns once the process exited.
stop_server_wait_killed ==
    /\ stop_pc = "wait_killed"
    /\ leader = "zombie"
    /\ leader' = "reaped"
    /\ pid_owner' = "free"
    /\ stop_pc' = "portcheck"
    /\ UNCHANGED <<child, listening, kill_pending, sent, stop_calls, port_warn,
                   driverVars, port_other, otherVars, probeVars>>

\* time.sleep(1), the connection attempt to the port (a warning when it is
\* accepted) and the two final prints.
stop_server_portcheck ==
    /\ stop_pc = "portcheck"
    /\ port_warn' = PortAccepts
    /\ stop_pc' = "returned"
    /\ UNCHANGED <<sent, stop_calls, procVars, driverVars, port_other, otherVars, probeVars>>

stop_server ==
    \/ stop_server_sigint
    \/ stop_server_wait
    \/ stop_server_kill
    \/ stop_server_wait_killed
    \/ stop_server_portcheck

Environment ==
    \/ \E p \in {"leader", "child"} : ProcExits(p)
    \/ ChildSpawns
    \/ ServerListens
    \/ PidReused

(***************************************************************************)
(* Program constants, in ticks of half a second.                           *)
(***************************************************************************)
TcpConnectTimeout == 2          \* socket.create_connection(..., timeout=1.0)
TcpSleep == 1                   \* time.sleep(0.5)
UrlopenTimeout == 4             \* urlopen(url, timeout=2)
HealthSleep == 2                \* time.sleep(1)
TcpTimeoutSecs == 60            \* wait_for_tcp(..., timeout_secs=30)
HealthTimeoutE2e == 180         \* wait_for_health(..., timeout_secs=90)
HealthTimeoutCombined == 120    \* wait_for_health(..., timeout_secs=60)

HealthTimeoutSecs == IF mode = "combined" THEN HealthTimeoutCombined ELSE HealthTimeoutE2e

paths == <<"/healthz", "/health">>

Artifacts == {"html", "summary.txt", "lcov.info", "coverage.json", "coverage_report.txt"}

(***************************************************************************)
(* The readiness prober: wait_for_tcp and wait_for_health.                 *)
(***************************************************************************)

\* Mutant of Raise: the stop is the last statement of the try body, not a
\* finally clause, so an exception leaves the function at once.
RaiseNoFinally(e, where) ==
    /\ exc' = e
    /\ fail_at' = where
    /\ pc' = "exit"
    /\ exit_code' = 1

\* An exception raised in the body of the try statement of
\* collect_e2e_local_coverage / cmd_coverage_combined: the finally clause runs
\* before it propagates.
Raise(e, where) ==
    /\ exc' = e
    /\ fail_at' = where
    /\ pc' = "finally"
    /\ exit_code' = exit_code

\* Mutant of TimedOut: the budget is taken for minutes.
TimedOutLate(e, budget) == e > budget * 2

\* `time.time() - start > timeout_secs`
TimedOut(e, budget) == e > budget

\* One socket.create_connection attempt.
wait_for_tcp_probe ==
    /\ pc = "wait_tcp"
    /\ \E d \in 0..TcpConnectTimeout :
        IF PortAccepts
        THEN /\ tcp_ok' = TRUE
             /\ pc' = "wait_health"
             /\ elapsed' = 0          \* wait_for_health takes its own start time
             /\ path_idx' = 1
             /\ UNCHANGED <<exc, fail_at, exit_code>>
        ELSE /\ elapsed' = elapsed + d    \* OSError: pass
             /\ pc' = "tcp_check"
             /\ UNCHANGED <<tcp_ok, path_idx, exc, fail_at, exit_code>>
    /\ UNCHANGED <<mode, skip_build, cleans, unit_rc, e2e_rc, written,
                   health_probes, ready, probe_err, port_other, otherVars, procVars, stopVars>>

\* The timeout test of wait_for_tcp, then sys.exit(1) or time.sleep(0.5).
wait_for_tcp_check ==
    /\ pc = "tcp_check"
    /\ IF TimedOut(elapsed, TcpTimeoutSecs)
       THEN Raise("SystemExit", "wait_for_tcp") /\ UNCHANGED elapsed
       ELSE /\ elapsed' = elapsed + TcpSleep
            /\ pc' = "wait_tcp"
            /\ UNCHANGED <<exc, fail_at, exit_code>>
    /\ UNCHANGED <<mode, skip_build, cleans, unit_rc, e2e_rc, written,
                   path_idx, tcp_ok, health_probes, ready, probe_err,
                   port_other, otherVars, procVars, stopVars>>

\* What one urlopen(url, timeout=2) can end in: a 2xx response; HTTPError (any
\* other status); URLError (the request could not be sent: refused, unreachable,
\* connect timeout); or an error while the response is read (a reset, a
\* disconnect, a read timeout), which urllib raises as it is, not as URLError.
UrlopenOutcomes ==
    IF listening THEN {"2xx", "HTTPError", "URLError", "ResponseError"}
    ELSE {"URLError"}

\* Mutant of IsReady: any HTTP answer counts, whatever its status.
IsReadyAnyStatus(o) == o \in {"2xx", "HTTPError"}

\* `if 200 <= resp.status < 300: return`
IsReady(o) == o = "2xx"

\* `except (URLError, HTTPError): pass`
Caught(o) == o \in {"URLError", "HTTPError"}

\* One urlopen of the next candidate path.
wait_for_health_probe ==
    /\ pc = "wait_health"
    /\ health_probes' = TRUE
    /\ \E d \in 0..UrlopenTimeout, o \in UrlopenOutcomes :
        IF IsReady(o)
        THEN /\ ready' = (o = "2xx")
             /\ pc' = "pytest_version"
             /\ elapsed' = 0 /\ path_idx' = 1    \* the locals of the wait are gone
             /\ UNCHANGED <<probe_err, exc, fail_at, exit_code>>
        ELSE IF Caught(o)
        THEN /\ elapsed' = elapsed + d
             /\ path_idx' = path_idx + 1
             /\ pc' = IF path_idx = Len(paths) THEN "health_check" ELSE "wait_health"
             /\ UNCHANGED <<ready, probe_err, exc, fail_at, exit_code>>
        ELSE /\ probe_err' = TRUE
             /\ elapsed' = elapsed + d
             /\ Raise("Exception", "wait_for_health")
             /\ UNCHANGED <<ready, path_idx>>
    /\ UNCHANGED <<mode, skip_build, cleans, unit_rc, e2e_rc, written, tcp_ok,
                   port_other, otherVars, procVars, stopVars>>

\* The timeout test of wait_for_health, then sys.exit(1) or time.sleep(1).
wait_for_health_check ==
    /\ pc = "health_check"
    /\ IF TimedOut(elapsed, HealthTimeoutSecs)
       THEN Raise("SystemExit", "wait_for_health") /\ UNCHANGED <<elapsed, path_idx>>
       ELSE /\ elapsed' = elapsed + HealthSleep
            /\ path_idx' = 1
            /\ pc' = "wait_health"
            /\ UNCHANGED <<exc, fail_at, exit_code>>
    /\ UNCHANGED <<mode, skip_build, cleans, unit_rc, e2e_rc, written,
                   tcp_ok, health_probes, ready, probe_err,
                   port_other, otherVars, procVars, stopVars>>

(***************************************************************************)
(* The driver: run_coverage_workflow, collect_unit_coverage,               *)
(* collect_e2e_local_coverage, cmd_coverage_combined, generate_reports.    *)
(***************************************************************************)

Modes == {"unit", "e2e-local", "combined"}

\* The skip_build the command hands to run_coverage_workflow: cmd_coverage_unit
\* reads args.skip_build; cmd_coverage_e2e reads args.no_build, an attribute
\* its parser never sets, and so passes False; combined has no such switch.
EffectiveSkipBuild == mode = "unit" /\ skip_build

\* Mutant of Exit: sys.exit() without the status, which is exit status 0.
ExitZero(status, where) ==
    /\ exit_code' = 0
    /\ fail_at' = where
    /\ pc' = "exit"

\* sys.exit(status) outside any try statement.
Exit(status, where) ==
    /\ exit_code' = status
    /\ fail_at' = where
    /\ pc' = "exit"

\* Mutant of WorkloadFatal: the workload runs under run_cmd, which exits on a
\* non-zero return code.
WorkloadFatalIfNonZero(rc) == rc # "ok"

\* Whether the driver ends the run on a workload's outcome: both workloads run
\* under run_cmd_allow_fail and a non-zero return code only prints a warning.
WorkloadFatal(rc) == FALSE

\* Mutant of validate_environment_exits: the failed check is reported and the
\* function returns.
validate_environment_returns(env_ready) == FALSE

\* validate_environment: `if not check_environment_ready(env_type): ... sys.exit(1)`
validate_environment_exits(env_ready) == ~env_ready

\* main up to `args.func(args)`: ensure_tool("cargo-llvm-cov") (sys.exit(1) when
\* the tool does not answer), the argument parser, and validate_environment
\* unless --skip-env-check is given.
main ==
    /\ pc = "main"
    /\ \E tool_ok \in BOOLEAN, env_ready \in BOOLEAN :
        IF ~tool_ok
        THEN env_check' = "no_tool" /\ Exit(1, "ensure_tool")
        ELSE IF skip_env_check
        THEN env_check' = "skipped" /\ pc' = "start" /\ UNCHANGED <<exit_code, fail_at>>
        ELSE /\ env_check' = IF env_ready THEN "ready" ELSE "not_ready"
             /\ IF validate_environment_exits(env_ready)
                THEN Exit(1, "validate_environment")
                ELSE pc' = "start" /\ UNCHANGED <<exit_code, fail_at>>
    /\ UNCHANGED <<mode, skip_build, exc, cleans, unit_rc, e2e_rc, written, skip_env_check,
                   port_other, procVars, stopVars, probeVars,
                   aggVars, repVars, confVars, runsVars, cfVars, cellVars, ciVars, mockVars>>

\* run_coverage_workflow / cmd_coverage_combined up to the first command:
\* `if skip_build: return` of the collect function, else the clean.
dispatch ==
    /\ pc = "start"
    /\ pc' = IF EffectiveSkipBuild THEN "rep_html" ELSE "clean"
    /\ UNCHANGED <<mode, skip_build, exc, exit_code, cleans, unit_rc, e2e_rc, written,
                   fail_at, port_other, otherVars, procVars, stopVars, probeVars>>

\* run_cmd(["cargo", "llvm-cov", "clean", "--workspace"]): exits on failure.
clean ==
    /\ pc = "clean"
    /\ cleans' = cleans + 1
    /\ \E ok \in BOOLEAN :
        IF ok
        THEN /\ pc' = IF mode = "e2e-local" THEN "start_server" ELSE "unit_tests"
             /\ UNCHANGED <<exit_code, fail_at>>
        ELSE Exit(1, "clean")
    /\ prior_data' = FALSE      \* the data of earlier runs is what the command removes
    /\ UNCHANGED <<mode, skip_build, exc, unit_rc, e2e_rc, written, partial,
                   port_other, aggVars, mainVars, confVars, runsVars, cfVars, cellVars, ciVars, mockVars,
                   procVars, stopVars, probeVars>>

\* Mutant of after_unit_workload: combined mode goes on with
\* collect_e2e_local_coverage, which cleans before it starts the server.
after_unit_workload_collect(m) == IF m = "combined" THEN "clean" ELSE "rep_html"

\* What follows the unit workload: cmd_coverage_combined starts the server
\* ("Collect e2e coverage (without cleaning)"); run_coverage_workflow goes on to
\* generate_reports.
after_unit_workload(m) == IF m = "combined" THEN "start_server" ELSE "rep_html"

\* The unit workload: run_cmd_allow_fail(["cargo", "llvm-cov", ...]) and the
\* branch on its return code.
unit_tests ==
    /\ pc = "unit_tests"
    /\ \E rc \in {"ok", "tests_failed", "crashed"} :
        /\ unit_rc' = rc
        /\ IF WorkloadFatal(rc)
           THEN Exit(1, "unit_tests")
           ELSE /\ pc' = after_unit_workload(mode)
                /\ UNCHANGED <<exit_code, fail_at>>
    /\ UNCHANGED <<mode, skip_build, exc, cleans, e2e_rc, written,
                   port_other, otherVars, procVars, stopVars, probeVars>>

\* What the config file may hold at modules.api_ingress.config.bind_addr: no
\* such key, or a string, given as its tokens: an address with a port, one
\* without ':', one with a port that is not a number, one with an empty port.
Absent == [present |-> FALSE, tokens |-> <<>>]
Unread == [present |-> FALSE, tokens |-> <<"unread">>]
BindAddrs ==
    { Absent,
      [present |-> TRUE, tokens |-> <<"127.0.0.1", ":", "8087">>],
      [present |-> TRUE, tokens |-> <<"127.0.0.1">>],
      [present |-> TRUE, tokens |-> <<"127.0.0.1", ":", "http">>],
      [present |-> TRUE, tokens |-> <<"localhost", ":">>] }

\* int(port_str): the number, or 0 for its ValueError (no port string of
\* BindAddrs reads as 0).
int(port_str) ==
    IF port_str = <<"8087">> THEN 8087
    ELSE IF port_str = <<"8080">> THEN 8080
    ELSE 0

\* dict.get(key, default) at the end of the chain of gets.
config_get(value, default) == IF value.present THEN value.tokens ELSE default

\* parse_bind_addr_port: the port number, or 0 when it raises ValueError.
parse_bind_addr_port(value) ==
    LET bind_addr == config_get(value, <<"127.0.0.1", ":", "8080">>)
        colons == {i \in 1..Len(bind_addr) : bind_addr[i] = ":"}
    IN IF colons = {} THEN 0
       ELSE LET last == CHOOSE i \in colons : \A j \in colons : j <= i
            IN int(SubSeq(bind_addr, last + 1, Len(bind_addr)))

\* Mutant of check_port_available_fails: the OSError of the bind is swallowed.
check_port_available_passes == FALSE

\* check_port_available: s.bind(("127.0.0.1", port)) raises OSError, which is
\* turned into the port-in-use message and sys.exit(1).
check_port_available_fails == port_other

\* start_instrumented_server: parse_bind_addr_port (its ValueError is caught
\* nowhere and ends the run with a traceback), check_port_available
\* (sys.exit(1) when the bind fails), then
\* subprocess.Popen(..., start_new_session=True).
start_instrumented_server ==
    /\ pc = "start_server"
    /\ \E value \in BindAddrs :
        /\ config_bind_addr' = value
        /\ port' = parse_bind_addr_port(value)      \* stays 0 (None) when it raises
        /\ IF parse_bind_addr_port(value) = 0
           THEN Exit(1, "parse_bind_addr_port") /\ UNCHANGED <<leader, pid_owner, elapsed>>
           ELSE IF check_port_available_fails
           THEN Exit(1, "check_port_available") /\ UNCHANGED <<leader, pid_owner, elapsed>>
           ELSE /\ leader' = "running"
                /\ pid_owner' = "server"
                /\ elapsed' = 0
                /\ pc' = "wait_tcp"
                /\ UNCHANGED <<exit_code, fail_at>>
    /\ UNCHANGED <<mode, skip_build, exc, cleans, unit_rc, e2e_rc, written,
                   child, listening, kill_pending, port_other, stopVars,
                   aggVars, mainVars, repVars, runsVars, cfVars, cellVars, ciVars, mockVars,
                   path_idx, tcp_ok, health_probes, ready, probe_err>>

\* run_e2e_tests, first half: `pytest --version`; sys.exit(1) when it fails.
pytest_version ==
    /\ pc = "pytest_version"
    /\ \E ok \in BOOLEAN :
        IF ok
        THEN pc' = "pytest" /\ UNCHANGED <<e2e_rc, exc, fail_at, exit_code>>
        ELSE e2e_rc' = "missing" /\ Raise("SystemExit", "run_e2e_tests")
    /\ UNCHANGED <<mode, skip_build, cleans, unit_rc, written,
                   port_other, otherVars, procVars, stopVars, probeVars>>

\* run_e2e_tests, second half: the pytest run under run_cmd_allow_fail, and the
\* caller's branch on its return code.
pytest ==
    /\ pc = "pytest"
    /\ \E rc \in {"ok", "tests_failed", "crashed"} :
        /\ e2e_rc' = rc
        /\ IF WorkloadFatal(rc)
           THEN Raise("SystemExit", "run_e2e_tests")
           ELSE pc' = "finally" /\ UNCHANGED <<exc, fail_at, exit_code>>
    /\ UNCHANGED <<mode, skip_build, cleans, unit_rc, written,
                   port_other, otherVars, procVars, stopVars, probeVars>>

\* The finally clause calls stop_server.
finally_stop ==
    /\ pc = "finally"
    /\ stop_pc' = "sigint"
    /\ stop_calls' = stop_calls + 1
    /\ pc' = "stopping"
    /\ elapsed' = 0 /\ path_idx' = 1    \* the locals of an abandoned wait are gone
    /\ UNCHANGED <<mode, skip_build, exc, exit_code, cleans, unit_rc, e2e_rc, written,
                   fail_at, sent, port_warn, port_other, otherVars, procVars,
                   tcp_ok, health_probes, ready, probe_err>>

\* stop_server has returned: the rest of the finally clause, then the pending
\* exception propagates to the top (exit status 1) or the driver goes on to
\* generate_reports.
finally_end ==
    /\ pc = "stopping"
    /\ stop_pc = "returned"
    /\ IF exc # "none"
       THEN exit_code' = 1 /\ pc' = "exit"
       ELSE pc' = "rep_html" /\ UNCHANGED exit_code
    /\ UNCHANGED <<mode, skip_build, exc, cleans, unit_rc, e2e_rc, written, fail_at,
                   port_other, otherVars, procVars, stopVars, probeVars>>

RepNext(p) == CASE p = "rep_html" -> "rep_summary"
                [] p = "rep_summary" -> "rep_lcov"
                [] p = "rep_lcov" -> "rep_json"
                [] p = "rep_json" -> "rep_custom"
                [] p = "rep_custom" -> "exit"

RepArtifact(p) == CASE p = "rep_html" -> "html"
                    [] p = "rep_summary" -> "summary.txt"
                    [] p = "rep_lcov" -> "lcov.info"
                    [] p = "rep_json" -> "coverage.json"
                    [] p = "rep_custom" -> "coverage_report.txt"

RepPcs == {"rep_html", "rep_summary", "rep_lcov", "rep_json", "rep_custom"}

\* The artifacts the script writes itself, with Path.write_text: the file is
\* opened for writing (and truncated), written and closed, in place.
WrittenInPlace == {"summary.txt", "coverage.json", "coverage_report.txt"}

\* How one step of generate_reports can end: the command and the write succeed;
\* the command fails (run_cmd / run_cmd_capture exit before anything is
\* written); or the write itself is cut short (the disk is full, the process is
\* interrupted), which leaves what had been written so far.  Whether coverage
\* data is on disk is not looked at: without any, `cargo llvm-cov report` has
\* nothing to merge, and what it answers is all that happens.
StepOutcomes(p) ==
    {"ok", "command_failed"}
        \cup (IF RepArtifact(p) \in WrittenInPlace THEN {"write_cut_short"} ELSE {})

\* generate_reports, one artifact per step: the `cargo llvm-cov report` command
\* (run_cmd / run_cmd_capture exit on failure) or, for the custom table,
\* json.loads and format_custom_coverage_report; then the artifact is written.
generate_reports ==
    /\ pc \in RepPcs
    /\ \E outcome \in StepOutcomes(pc) :
        IF outcome = "ok"
        THEN /\ written' = written \cup {RepArtifact(pc)}
             /\ pc' = RepNext(pc)
             /\ exit_code' = IF pc = "rep_custom" THEN 0 ELSE exit_code
             /\ UNCHANGED <<fail_at, partial>>
        ELSE /\ Exit(1, "generate_reports")
             /\ partial' = IF outcome = "write_cut_short"
                            THEN partial \cup {RepArtifact(pc)} ELSE partial
             /\ UNCHANGED written
    /\ UNCHANGED <<mode, skip_build, exc, cleans, unit_rc, e2e_rc, prior_data,
                   port_other, aggVars, mainVars, confVars, runsVars, cfVars, cellVars, ciVars, mockVars,
                   procVars, stopVars, probeVars>>

Driver ==
    \/ main
    \/ dispatch
    \/ clean
    \/ unit_tests
    \/ start_instrumented_server
    \/ wait_for_tcp_probe
    \/ wait_for_tcp_check
    \/ wait_for_health_probe
    \/ wait_for_health_check
    \/ pytest_version
    \/ pytest
    \/ finally_stop
    \/ finally_end
    \/ generate_reports

\* No coverage run is in progress.
NoRun ==
    /\ mode = "unit" /\ skip_build = FALSE
    /\ pc = "none" /\ exc = "none" /\ exit_code = -1 /\ cleans = 0
    /\ unit_rc = "none" /\ e2e_rc = "none" /\ written = {} /\ fail_at = "none"
    /\ port_other = FALSE
    /\ skip_env_check = FALSE /\ env_check = "none"
    /\ partial = {} /\ prior_data = FALSE
    /\ config_bind_addr = Unread /\ port = 0

NoSession ==
    /\ leader = "none" /\ child = "none" /\ listening = FALSE
    /\ kill_pending = {} /\ pid_owner = "none"
    /\ sent = <<>> /\ stop_pc = "idle" /\ stop_calls = 0 /\ port_warn = FALSE

NoProbe ==
    /\ elapsed = 0 /\ path_idx = 1 /\ tcp_ok = FALSE
    /\ health_probes = FALSE /\ ready = FALSE /\ probe_err = FALSE

\* The command line, and the machine the script is started on.
Init ==
    /\ mode \in Modes
    /\ skip_build \in BOOLEAN
    /\ mode = "combined" => ~skip_build
    /\ skip_env_check \in BOOLEAN
    /\ env_check = "none"
    /\ pc = "main" /\ exc = "none" /\ exit_code = -1 /\ cleans = 0
    /\ unit_rc = "none" /\ e2e_rc = "none" /\ written = {} /\ fail_at = "none"
    /\ partial = {}
    /\ prior_data \in BOOLEAN
    /\ config_bind_addr = Unread /\ port = 0
    /\ port_other \in BOOLEAN
    /\ NoSession
    /\ NoProbe
    /\ NoAgg /\ NoRuns /\ NoClassify /\ NoCell /\ NoCi /\ NoMock

Next == Driver \/ stop_server \/ Environment

Spec == Init /\ [][Next]_vars

(***************************************************************************)
(* stop_server on its own: a started session, stopped MaxStopCalls times.  *)
(***************************************************************************)

MaxStopCalls == 2

\* A caller of stop_server(server_process, port, log_file).
call_stop_server ==
    /\ pc = "harness"
    /\ stop_pc \in {"idle", "returned"}
    /\ stop_calls < MaxStopCalls
    /\ stop_pc' = "sigint"
    /\ stop_calls' = stop_calls + 1
    /\ UNCHANGED <<sent, port_warn, driverVars, port_other, otherVars, procVars, probeVars>>

\* A session as start_instrumented_server leaves it, at any later moment.
InitStop ==
    /\ mode = "e2e-local" /\ skip_build = FALSE
    /\ pc = "harness" /\ exc = "none" /\ exit_code = -1 /\ cleans = 0
    /\ unit_rc = "none" /\ e2e_rc = "none" /\ written = {} /\ fail_at = "none"
    /\ port_other = FALSE
    /\ skip_env_check = FALSE /\ env_check = "ready" /\ partial = {}
    /\ prior_data = FALSE
    /\ config_bind_addr = [present |-> TRUE, tokens |-> <<"127.0.0.1", ":", "8087">>]
    /\ port = 8087
    /\ leader = "running" /\ pid_owner = "server" /\ kill_pending = {}
    /\ child \in {"none", "running"}
    /\ listening \in BOOLEAN
    /\ listening => child = "running"
    /\ sent = <<>> /\ stop_pc = "idle" /\ stop_calls = 0 /\ port_warn = FALSE
    /\ NoProbe
    /\ NoAgg /\ NoRuns /\ NoClassify /\ NoCell /\ NoCi /\ NoMock

NextStop == call_stop_server \/ stop_server \/ Environment

SpecStop == InitStop /\ [][NextStop]_vars

\* A process that was sent SIGKILL exits: the signal cannot be caught.
KilledExits(p) == p \in kill_pending /\ ProcExits(p)

\* The script's own steps go on (every blocking call is bounded or, for the
\* wait after the kill, ends when the killed process has exited).
FairSpecStop ==
    /\ SpecStop
    /\ WF_vars(stop_server)
    /\ \A p \in {"leader", "child"} : WF_vars(KilledExits(p))

FairSpec ==
    /\ Spec
    /\ WF_vars(Driver)
    /\ WF_vars(stop_server)
    /\ \A p \in {"leader", "child"} : WF_vars(KilledExits(p))

(***************************************************************************)
(* aggregate_coverage_data on its own: any list of at most MaxFiles        *)
(* records.                                                                *)
(***************************************************************************)

MaxFiles == 2

\* File names as llvm-cov may report them: relative, with a "./" prefix,
\* absolute under the project root, and outside the project.
Filenames ==
    { <<"libs", "/", "foo", "/", "a.rs">>,
      <<".", "/", "libs", "/", "foo", "/", "b.rs">>,
      <<"modules", "/", "foo", "/", "c.rs">>,
      <<"modules", "/", "bar", "/", "d.rs">>,
      <<"apps", "/", "srv", "/", "main.rs">>,
      <<"/", "ws", "/", "libs", "/", "bar", "/", "e.rs">>,
      <<"/", "cargo", "/", "x.rs">> }

\* Summaries of a record: two with all three metrics, one that lacks the
\* functions and lines entries.
Summaries ==
    { [regions |-> [covered |-> 1, count |-> 2],
       functions |-> [covered |-> 1, count |-> 1],
       lines |-> [covered |-> 3, count |-> 4]],
      [regions |-> [covered |-> 0, count |-> 1],
       functions |-> [covered |-> 0, count |-> 1],
       lines |-> [covered |-> 0, count |-> 2]],
      [regions |-> [covered |-> 2, count |-> 2]] }

FileRecords == [filename : Filenames, summary : Summaries]

InitAgg ==
    /\ files_data \in UNION {[1..n -> FileRecords] : n \in 0..MaxFiles}
    /\ agg_pc = "loop" /\ agg_idx = 1
    /\ individual_files = <<>> /\ groups = <<>> /\ total_stats = ZeroStats
    /\ expand_to_project = FALSE /\ exp_idx = 1
    /\ NoRun /\ NoSession /\ NoProbe
    /\ NoRuns /\ NoClassify /\ NoCell /\ NoCi /\ NoMock

NextAgg == aggregate_coverage_data_loop \/ aggregate_coverage_data_return

SpecAgg == InitAgg /\ [][NextAgg]_vars

(***************************************************************************)
(* format_custom_coverage_report on any such list, with and without the    *)
(* expansion.                                                              *)
(***************************************************************************)

InitReport ==
    /\ files_data \in UNION {[1..n -> FileRecords] : n \in 0..MaxFiles}
    /\ agg_pc = "loop" /\ agg_idx = 1
    /\ individual_files = <<>> /\ groups = <<>> /\ total_stats = ZeroStats
    /\ expand_to_project \in BOOLEAN /\ exp_idx = 1
    /\ NoRun /\ NoSession /\ NoProbe
    /\ NoRuns /\ NoClassify /\ NoCell /\ NoCi /\ NoMock

NextReport ==
    \/ aggregate_coverage_data_loop
    \/ aggregate_coverage_data_return
    \/ expand_to_project_loop
    \/ build_report

SpecReport == InitReport /\ [][NextReport]_vars

(***************************************************************************)
(* NumRuns coverage runs with the same configured port, started at any     *)
(* moment.                                                                 *)
(***************************************************************************)

InitRuns ==
    /\ NoRuns
    /\ NoRun /\ NoSession /\ NoProbe
    /\ NoAgg /\ NoClassify /\ NoCell /\ NoCi /\ NoMock

NextRuns ==
    \E r \in Runs :
        \/ run_starts(r)
        \/ check_port_available_bind(r)
        \/ check_port_available_close(r)
        \/ Popen(r)
        \/ server_binds(r)
        \/ wait_for_ready(r)
        \/ run_e2e_tests(r)
        \/ stop_server_returns(r)

SpecRuns == InitRuns /\ [][NextRuns]_vars

(***************************************************************************)
(* The classification of any one file name.                                *)
(***************************************************************************)

\* s with every "/" written as a backslash.
with_backslashes(s) == [i \in 1..Len(s) |-> IF s[i] = "/" THEN "\\" ELSE s[i]]

\* File names: relative, with a "./" prefix, absolute under the project root
\* and outside it; under libs, modules, apps and elsewhere; the root alone, a
\* file right under it, and files one and two levels below; with either
\* separator.
Filepaths ==
    LET prefixes == { <<>>, <<".", "/">>, <<"/", "ws", "/">>, <<"/", "cargo", "/">> }
        roots == {"libs", "modules", "apps", "target"}
        tails == { <<>>, <<"/", "x.rs">>, <<"/", "foo", "/", "x.rs">>,
                   <<"/", "foo", "/", "src", "/", "bar.rs">> }
        posix == {pre \o <<root>> \o tail : pre \in prefixes, root \in roots, tail \in tails}
    IN posix \cup {with_backslashes(s) : s \in posix}

InitClassify ==
    /\ cf_filepath \in Filepaths
    /\ cf_pc = "relative" /\ cf_rel_path = <<>> /\ cf_result = <<>>
    /\ NoRun /\ NoSession /\ NoProbe
    /\ NoAgg /\ NoRuns /\ NoCell /\ NoCi /\ NoMock

NextClassify == make_relative_path_call \/ categorize_file_call

SpecClassify == InitClassify /\ [][NextClassify]_vars

(***************************************************************************)
(* format_coverage_cell on any counts up to MaxTotal.                      *)
(***************************************************************************)

MaxTotal == 10

\* --threshold values: the default and the ends and the middle of the scale.
Thresholds == {0, 50, COVERAGE_THRESHOLD, 100}

\* TERM values: a terminal without capabilities, one without and one with
\* "color" in its name.
Terms == {<<"dumb">>, <<"xterm">>, <<"xterm-256", "color">>}

CellArgs ==
    {a \in [covered : 0..MaxTotal, total : 0..MaxTotal, threshold : Thresholds,
            use_color : BOOLEAN, isatty : BOOLEAN,
            COLORTERM : {"", "truecolor", "24bit"}, TERM : Terms,
            NO_COLOR : {"", "1"}] : a.covered <= a.total}

InitCell ==
    /\ cell_args \in CellArgs
    /\ cell_pc = "call" /\ cell = <<>>
    /\ NoRun /\ NoSession /\ NoProbe
    /\ NoAgg /\ NoRuns /\ NoClassify /\ NoCi /\ NoMock

NextCell == format_coverage_cell

SpecCell == InitCell /\ [][NextCell]_vars

(***************************************************************************)
(* ci.py e2e in local mode, with or without a server already answering.    *)
(***************************************************************************)
InitCi ==
    /\ ci_pc = "wait_existing" /\ ci_elapsed = 0 /\ ci_server = "none"
    /\ ci_api \in BOOLEAN
    /\ ci_exit = -1 /\ ci_sigs = <<>>
    /\ NoRun /\ NoSession /\ NoProbe
    /\ NoAgg /\ NoRuns /\ NoClassify /\ NoCell /\ NoMock

NextCi == cmd_e2e \/ CiServerReady \/ CiServerExits

SpecCi == InitCi /\ [][NextCi]_vars

(***************************************************************************)
(* The mock server module under any sequence of calls.                     *)
(***************************************************************************)
InitMock ==
    /\ mock_server = "None" /\ docker_mode \in BOOLEAN
    /\ ms_server = [i \in Instances |-> "None"]
    /\ ms_thread = [i \in Instances |-> "None"]
    /\ ms_port = [i \in Instances |-> "None"]
    /\ sockets = {} /\ serving = [i \in Instances |-> 0]
    /\ mock_calls = <<>>
    /\ NoRun /\ NoSession /\ NoProbe
    /\ NoAgg /\ NoRuns /\ NoClassify /\ NoCell /\ NoCi

NextMock == call_start \/ call_stop \/ start_mock_server \/ stop_mock_server

SpecMock == InitMock /\ [][NextMock]_vars

(***************************************************************************)
(* Claims.                                                                 *)
(***************************************************************************)

Started == leader # "none"

\* C1: in e2e-local and combined collection, once start_instrumented_server has
\* returned a process, the driver leaves the collection step (to report
\* generation or to the exit, with or without an error) only after
\* stop_server has run and returned for that process, and the process has been
\* reaped: no run ends with the server it started still running.
C1_StopOnEveryPath ==
    (Started /\ pc \in RepPcs \cup {"exit"}) =>
        /\ stop_calls = 1
        /\ stop_pc = "returned"
        /\ leader = "reaped"

\* A run that failed in the collection step (a readiness timeout, pytest
\* missing, an escaped exception) has ended, with the server stopped.
C1_Witness ==
    /\ pc = "exit" /\ exc # "none" /\ exit_code = 1
    /\ Started /\ leader = "reaped" /\ stop_pc = "returned"

StopActive == stop_pc \in {"sigint", "wait", "wait_killed", "portcheck"}

\* C2: stop_server applied to a process that is still running when the drain
\* wait expires sends SIGKILL to the process group and then waits until the
\* process has exited: every call of stop_server eventually returns, and it
\* returns with the process terminated and reaped.
C2_ForcedTeardown ==
    /\ [](stop_pc = "wait_killed" =>
            /\ Len(sent) > 0
            /\ sent[Len(sent)] = <<stop_calls, "SIGKILL", "group">>
            /\ (leader = "running" => "leader" \in kill_pending))
    /\ [](stop_pc \in {"portcheck", "returned"} => leader = "reaped")
    /\ (StopActive ~> stop_pc = "returned")

\* stop_server has returned for a process that outlived the drain wait and
\* was killed.
C2_Witness ==
    /\ stop_pc = "returned" /\ stop_calls = 1 /\ leader = "reaped"
    /\ sent = <<<<1, "SIGINT", "group">>, <<1, "SIGKILL", "group">>>>

\* C3: a second stop_server on a session that has already been stopped is a
\* no-op: no signal is sent in any call after the first, and it ends with the
\* same result (the process reaped).
C3_SecondStopIsNoOp ==
    /\ \A i \in 1..Len(sent) : sent[i][1] = 1
    /\ (stop_calls >= 2 /\ stop_pc = "returned" => leader = "reaped")

\* The workload that ran last failed some of its tests.
LastWorkloadTestsFailed ==
    \/ mode = "unit" /\ unit_rc = "tests_failed"
    \/ e2e_rc = "tests_failed"

\* C6: a unit or integration workload that ran and failed some tests does not
\* fail the run: no failure arises at the workload, the driver goes on (the
\* server, if any, is stopped first) to generate_reports, and the run ends
\* with every report artifact written and exit status 0 unless a report
\* command itself fails.
C6_TestFailuresNotFatal ==
    /\ unit_rc = "tests_failed" => fail_at # "unit_tests"
    /\ e2e_rc = "tests_failed" => (fail_at # "run_e2e_tests" /\ exc = "none")
    /\ (pc \in RepPcs /\ Started) => (stop_pc = "returned" /\ leader = "reaped")
    /\ (pc = "exit" /\ LastWorkloadTestsFailed) =>
          \/ exit_code = 0 /\ written = Artifacts
          \/ exit_code = 1 /\ fail_at = "generate_reports"

\* A combined run in which both workloads failed tests has ended with the
\* whole report written.
C6_Witness ==
    /\ pc = "exit" /\ mode = "combined"
    /\ unit_rc = "tests_failed" /\ e2e_rc = "tests_failed"
    /\ exit_code = 0 /\ written = Artifacts /\ leader = "reaped"

\* C7: when a workload could not execute at all (pytest missing, or the unit or
\* integration test command crashing before any test ran), the run is aborted
\* with a non-zero exit and no report is generated.
C7_ExecutionErrorsFatal ==
    (unit_rc = "crashed" \/ e2e_rc \in {"crashed", "missing"}) =>
        /\ pc \notin RepPcs
        /\ written = {}
        /\ (pc = "exit" => exit_code # 0)

InTcpWait == pc \in {"wait_tcp", "tcp_check"}
InHealthWait == pc \in {"wait_health", "health_check"}

\* One retry cycle: the probes of one round, each up to its timeout, and the sleep.
TcpCycle == TcpConnectTimeout + TcpSleep
HealthCycle == Len(paths) * UrlopenTimeout + HealthSleep

\* C8: the readiness wait always terminates, and never runs past the caller's
\* budget by more than one retry cycle: wait_for_tcp and wait_for_health are
\* left eventually, and a wait that ends in its timeout failure does so after
\* the budget has expired and at most one cycle later.
C8_WaitTerminates ==
    /\ [](InTcpWait => elapsed <= TcpTimeoutSecs + TcpCycle)
    /\ [](InHealthWait => elapsed <= HealthTimeoutSecs + HealthCycle)
    /\ []((pc = "finally" /\ exc = "SystemExit" /\ fail_at = "wait_for_tcp") =>
             (elapsed > TcpTimeoutSecs /\ elapsed <= TcpTimeoutSecs + TcpCycle))
    /\ []((pc = "finally" /\ exc = "SystemExit" /\ fail_at = "wait_for_health") =>
             (elapsed > HealthTimeoutSecs /\ elapsed <= HealthTimeoutSecs + HealthCycle))
    /\ (InTcpWait ~> ~InTcpWait)
    /\ (InHealthWait ~> ~InHealthWait)

\* wait_for_tcp has ended in its timeout failure with the largest overshoot.
C8_Witness ==
    /\ pc = "finally" /\ exc = "SystemExit" /\ fail_at = "wait_for_tcp"
    /\ elapsed = TcpTimeoutSecs + TcpCycle
    /\ ~tcp_ok

\* C9: while the budget has not expired every failed probe is retried: a
\* readiness wait fails only by its own timeout exit, never by an error that
\* escapes a probe.
C9_EveryFailedProbeRetried ==
    /\ ~probe_err
    /\ fail_at \in {"wait_for_tcp", "wait_for_health"} => exc = "SystemExit"

\* C10: a successful TCP connect precedes the first health probe, the first
\* health probe asks for /healthz, and a 2xx answer precedes the integration
\* workload: the workload (the pytest check and run) is never started for a
\* session that did not become ready.
C10_ReadyBeforeWorkload ==
    /\ (health_probes \/ InHealthWait) => tcp_ok
    /\ (InHealthWait /\ ~health_probes) => (pc = "wait_health" /\ paths[path_idx] = "/healthz")
    /\ ready => health_probes
    /\ (pc \in {"pytest_version", "pytest"} \/ e2e_rc # "none") => ready

\* The integration workload is about to run against a ready session.
C10_Witness ==
    /\ pc = "pytest" /\ ready /\ tcp_ok /\ health_probes /\ listening

\* The normalized path of the i-th input record.
RelPath(i) == make_relative_path(files_data[i].filename, project_root)

\* The covered / total count of metric m of the i-th input record.
InputCount(i, m, k) ==
    summary_get(files_data[i].summary, m, IF k = "total" THEN "count" ELSE k)

RECURSIVE SumInputs(_, _, _)
SumInputs(I, m, k) ==
    IF I = {} THEN 0
    ELSE LET i == CHOOSE j \in I : TRUE
         IN InputCount(i, m, k) + SumInputs(I \ {i}, m, k)

KindRoot(kind) == IF kind = "lib" THEN "libs" ELSE "modules"

\* The input records whose normalized path lies under <root of kind>/<name>/.
Under(kind, name) ==
    {i \in 1..Len(files_data) :
        startswith(RelPath(i), <<KindRoot(kind), "/">> \o name \o <<"/">>)}

\* The input records under the library, module or application root.
NonExternal ==
    {i \in 1..Len(files_data) :
        \E root \in {"libs", "modules", "apps"} : startswith(RelPath(i), <<root, "/">>)}

\* The input records under some group's prefix.
Grouped ==
    {i \in 1..Len(files_data) :
        \E kind \in {"lib", "module"} :
            /\ startswith(RelPath(i), <<KindRoot(kind), "/">>)
            /\ Len(RelPath(i)) >= 4 /\ RelPath(i)[3] # "/" /\ RelPath(i)[4] = "/"}

RECURSIVE SumGroups(_, _, _)
SumGroups(gs, m, k) ==
    IF gs = <<>> THEN 0 ELSE gs[1].stats[m][k] + SumGroups(Tail(gs), m, k)

\* C4: every group returned by aggregate_coverage_data holds, for every metric,
\* the sums of covered and total over exactly the input files under that
\* group's (kind, name) prefix, and no two groups stand for the same prefix.
C4_GroupSums ==
    agg_pc = "done" =>
        /\ \A i \in 1..Len(groups) : \A m \in Metrics : \A k \in {"covered", "total"} :
              groups[i].stats[m][k] = SumInputs(Under(groups[i].type, groups[i].name), m, k)
        /\ \A i, j \in 1..Len(groups) :
              (groups[i].type = groups[j].type /\ groups[i].name = groups[j].name) => i = j

\* C5: the total is, per metric, the sum over every non-external input record
\* counted once, grouped or not; the individual-file list is the non-external
\* records in input order; the groups together hold the sums of the records
\* under a library or module; so an external file appears in none of them.
C5_TotalSums ==
    agg_pc = "done" =>
        /\ \A m \in Metrics : \A k \in {"covered", "total"} :
              /\ total_stats[m][k] = SumInputs(NonExternal, m, k)
              /\ SumGroups(groups, m, k) = SumInputs(Grouped, m, k)
        /\ Len(individual_files) = Cardinality(NonExternal)
        /\ \A j \in 1..Len(individual_files) :
              \E i \in NonExternal :
                 /\ individual_files[j].path = RelPath(i)
                 /\ Cardinality({n \in NonExternal : n < i}) = j - 1
                 /\ \A m \in Metrics : \A k \in {"covered", "total"} :
                       individual_files[j].stats[m][k] = InputCount(i, m, k)

\* An aggregation of an external file, an ungrouped application file and a
\* grouped file with counts has returned.
C5_Witness ==
    /\ agg_pc = "done"
    /\ Len(files_data) >= 2
    /\ NonExternal # {}
    /\ NonExternal # 1..Len(files_data)
    /\ total_stats["regions"].total > 0

\* C11: when the configured port is occupied at the call of
\* start_instrumented_server, no server process is ever spawned, the readiness
\* wait is never entered, and the run (e2e-local or combined) ends at the
\* call with exit status 1 from check_port_available, nothing stopped and
\* nothing reported.
C11_PortInUseFailsFast ==
    /\ port_other => (leader = "none" /\ stop_calls = 0 /\ ~tcp_ok)
    /\ (port_other /\ mode # "unit"
          /\ pc \notin {"main", "start", "clean", "unit_tests", "start_server"}) =>
          /\ pc = "exit" /\ exit_code = 1 /\ written = {}
          /\ fail_at \in {"ensure_tool", "validate_environment", "clean",
                          "parse_bind_addr_port", "check_port_available"}
    /\ fail_at = "check_port_available" =>
          (port_other /\ pc = "exit" /\ exit_code = 1 /\ leader = "none")

\* A combined run has ended at the port check after its unit workload.
C11_Witness ==
    /\ mode = "combined" /\ port_other /\ unit_rc # "none"
    /\ pc = "exit" /\ exit_code = 1 /\ fail_at = "check_port_available"
    /\ leader = "none"

\* C12: of the coverage runs configured for the same port at most one has a
\* server session (a spawned server not yet stopped) at any moment: the
\* pre-bind check stops every later run before its Popen.
C12_OneSessionPerPort ==
    \A r, q \in Runs : (r # q /\ SessionActive(r)) => ~SessionActive(q)

\* C13: when stop_server has returned, no process of the server's process
\* group is alive: neither the launched command nor the server binary it
\* spawned.
C13_GroupGone ==
    stop_pc = "returned" => Alive = {}

\* C14: with --skip-build, in unit mode and in e2e-local mode, the run cleans
\* nothing, runs no workload and starts no server (it goes from the command
\* straight to generate_reports).
C14_SkipBuildSkipsCollection ==
    (skip_build /\ mode \in {"unit", "e2e-local"}) =>
        /\ cleans = 0
        /\ unit_rc = "none" /\ e2e_rc = "none"
        /\ leader = "none"
        /\ pc \in {"main", "start", "exit"} \cup RepPcs

\* C15: in combined mode the coverage data is cleaned exactly once, before the
\* unit workload; the unit workload has run before the server is started; no
\* clean follows the unit workload; and when the report is generated both
\* workloads have run on the data of that one clean.
C15_CombinedCleansOnce ==
    mode = "combined" =>
        /\ cleans <= 1
        /\ (pc = "unit_tests" \/ unit_rc # "none") => cleans = 1
        /\ (pc = "start_server" \/ Started) => unit_rc # "none"
        /\ pc \in RepPcs =>
              (cleans = 1 /\ unit_rc # "none" /\ e2e_rc \in {"ok", "tests_failed", "crashed"})

\* A combined run has written its report after both workloads.
C15_Witness ==
    /\ mode = "combined" /\ pc = "exit" /\ exit_code = 0 /\ written = Artifacts
    /\ cleans = 1 /\ unit_rc = "ok" /\ e2e_rc = "ok"

CollectingPcs == {"unit_tests", "start_server", "wait_tcp", "tcp_check", "wait_health",
                  "health_check", "pytest_version", "pytest", "finally", "stopping"}

\* The phases come in the order Cleaning, Collecting, Aggregating/Reporting:
\* while cleaning nothing has been collected or reported, while collecting the
\* clean is done and nothing has been reported, and the report is written
\* only in generate_reports, after the collection (if any) has ended.
PhaseOrder ==
    /\ pc \in {"main", "start"} => (cleans = 0 /\ unit_rc = "none" /\ ~Started /\ written = {})
    /\ pc = "clean" => (cleans = 0 /\ unit_rc = "none" /\ e2e_rc = "none" /\ ~Started
                          /\ written = {})
    /\ pc \in CollectingPcs => (cleans = 1 /\ written = {})
    /\ pc \in RepPcs => /\ cleans = (IF EffectiveSkipBuild THEN 0 ELSE 1)
                        /\ (Started => stop_pc = "returned")
    /\ written # {} => (pc \in RepPcs \cup {"exit"} /\ fail_at \in {"none", "generate_reports"})

\* Where a fatal error of the collection arises.
CollectingFailures == {"unit_tests", "parse_bind_addr_port", "check_port_available", "wait_for_tcp",
                       "wait_for_health", "run_e2e_tests"}

\* Failures of main's prerequisite checks, before the first phase.
PrerequisiteFailures == {"ensure_tool", "validate_environment"}

\* C16 as stated: the phases come in order, and a run that has passed the
\* prerequisite checks ends with a non-zero exit status only from the
\* collection: never from the clean and never from generate_reports.
C16_FailureOnlyFromCollecting ==
    /\ PhaseOrder
    /\ (pc = "exit" /\ exit_code # 0) =>
          fail_at \in PrerequisiteFailures \cup CollectingFailures

\* C16 as amended: the phases come in order; a run ends with a non-zero exit
\* status from the collection on a fatal error, and also from the clean or
\* from generate_reports when a command there fails; every failure ends the
\* run with a non-zero status, and a run that ends with status 0 has written
\* the whole report.
C16_FailureOrigins ==
    /\ PhaseOrder
    /\ (pc = "exit" /\ exit_code # 0) =>
          fail_at \in PrerequisiteFailures \cup {"clean"} \cup CollectingFailures
                        \cup {"generate_reports"}
    /\ fail_at # "none" => (pc \in {"finally", "stopping", "exit"}
                            /\ (pc = "exit" => exit_code # 0))
    /\ fail_at = "clean" => (unit_rc = "none" /\ e2e_rc = "none" /\ ~Started)
    /\ (pc = "exit" /\ exit_code = 0) => (fail_at = "none" /\ written = Artifacts)

\* A run has ended in failure in generate_reports, with a part of the report
\* written.
C16_Witness ==
    /\ pc = "exit" /\ exit_code = 1 /\ fail_at = "generate_reports"
    /\ written # {} /\ written # Artifacts

\* C17: when the prerequisite check reports the environment as not ready, the
\* run ends at once with exit status 1: nothing is cleaned, no workload runs,
\* no server is started and no report is generated; and unless the check is
\* skipped on the command line, the command runs only after it has passed.
C17_EnvNotReadyHalts ==
    /\ env_check = "not_ready" =>
          /\ pc = "exit" /\ exit_code = 1 /\ fail_at = "validate_environment"
          /\ cleans = 0 /\ unit_rc = "none" /\ e2e_rc = "none"
          /\ leader = "none" /\ written = {}
    /\ (~skip_env_check /\ (pc \notin {"main", "exit"} \/ cleans > 0 \/ written # {})) =>
          env_check = "ready"

\* A run has ended at the failed prerequisite check.
C17_Witness ==
    /\ env_check = "not_ready" /\ ~skip_env_check
    /\ pc = "exit" /\ exit_code = 1 /\ fail_at = "validate_environment"

Separators == {"/", "\\"}

\* The path segments of a file name: its names, read across either separator;
\* a "." names nothing.
Segments(p) == SelectSeq(p, LAMBDA t : t \notin Separators \cup {"."})

Rooted(p) == Len(p) > 0 /\ p[1] \in Separators

\* A rooted file name that lies below the project root.
InProject(p) ==
    /\ Rooted(p)
    /\ Len(Segments(p)) > Len(Segments(project_root))
    /\ SubSeq(Segments(p), 1, Len(Segments(project_root))) = Segments(project_root)

\* The segments of the normalized path: of a file name inside the project, its
\* segments below the project root; of any other, all its segments.
NormalSegments(p) ==
    IF InProject(p)
    THEN SubSeq(Segments(p), Len(Segments(project_root)) + 1, Len(Segments(p)))
    ELSE Segments(p)

\* Segments written with "/" between them.
RECURSIVE Slashed(_)
Slashed(seg) ==
    IF Len(seg) = 0 THEN <<>>
    ELSE IF Len(seg) = 1 THEN <<seg[1]>>
    ELSE <<seg[1], "/">> \o Slashed(Tail(seg))

\* The normalized path: separators unified, a leading "./" stripped, and a
\* file name inside the project made relative to the project root.
Normalized(p) ==
    IF Rooted(p) /\ ~InProject(p) THEN <<"/">> \o Slashed(Segments(p))
    ELSE Slashed(NormalSegments(p))

\* The ordered rule on the normalized path.
Classification(p) ==
    LET seg == IF Rooted(p) /\ ~InProject(p) THEN <<>> ELSE NormalSegments(p)
    IN IF Len(seg) >= 2 /\ seg[1] = "libs" THEN <<"lib", <<seg[2]>>>>
       ELSE IF Len(seg) >= 2 /\ seg[1] = "modules" THEN <<"module", <<seg[2]>>>>
       ELSE IF Len(seg) >= 2 /\ seg[1] = "apps" THEN <<"file", <<>>>>
       ELSE <<"external", <<>>>>

\* C18: make_relative_path normalizes a file name (separators unified, a
\* leading "./" stripped), and categorize_file classifies the normalized path
\* by the ordered rule: under libs/ the library named by the second segment,
\* else under modules/ the module named by the second segment, else under
\* apps/ a standalone file without a group, else external; every file name
\* gets one of these four classifications, and "./libs/foo/src/bar.rs"
\* normalizes to "libs/foo/src/bar.rs" and is put in library "foo".
C18_Classification ==
    /\ cf_pc \in {"categorize", "done"} => cf_rel_path = Normalized(cf_filepath)
    /\ cf_pc = "done" =>
          /\ cf_result = Classification(cf_filepath)
          /\ cf_result[1] \in {"lib", "module", "file", "external"}
          /\ cf_result[2] # <<>> <=> cf_result[1] \in {"lib", "module"}
    /\ (cf_pc = "done" /\ cf_filepath = <<".", "/", "libs", "/", "foo", "/", "src", "/", "bar.rs">>) =>
          /\ cf_rel_path = <<"libs", "/", "foo", "/", "src", "/", "bar.rs">>
          /\ cf_result = <<"lib", <<"foo">>>>

\* "./libs/foo/src/bar.rs" has been classified.
C18_Witness ==
    /\ cf_pc = "done"
    /\ cf_filepath = <<".", "/", "libs", "/", "foo", "/", "src", "/", "bar.rs">>
    /\ cf_rel_path = <<"libs", "/", "foo", "/", "src", "/", "bar.rs">>
    /\ cf_result = <<"lib", <<"foo">>>>

\* C19: the percentage of a cell is 0 when total = 0; otherwise it is an
\* integer nearest to 100 * covered / total (at most one half away from it);
\* and with covered <= total it lies in 0..100.
C19_Percentage ==
    cell_pc = "done" =>
        LET c == cell_args.covered
            t == cell_args.total
            p == cell.percent
        IN /\ t = 0 => p = 0
           /\ t > 0 => (2 * (100 * c - p * t) <= t /\ 2 * (p * t - 100 * c) <= t)
           /\ p \in 0..100

\* A cell for a metric without any counts has been formatted.
C19_Witness ==
    /\ cell_pc = "done"
    /\ cell_args.total = 0 /\ cell_args.covered = 0
    /\ cell.percent = 0 /\ cell.missed = 0

\* Color is enabled for the cell.
ColorEnabled == cell_args.use_color /\ supports_color(cell_args)

\* C20: a cell carries the marker "!" exactly when its percentage is strictly
\* below the threshold; with color enabled it is red exactly then and green
\* otherwise, and without color it is not colored; so a cell at the threshold
\* is unmarked, and green when colored.
C20_ThresholdMarker ==
    cell_pc = "done" =>
        /\ cell.warning = "!" <=> cell.percent < cell_args.threshold
        /\ cell.warning \in {"!", " "}
        /\ ColorEnabled => /\ cell.color = "red" <=> cell.percent < cell_args.threshold
                           /\ cell.color = "green" <=> cell.percent >= cell_args.threshold
        /\ ~ColorEnabled => cell.color = "none"
        /\ cell.percent = cell_args.threshold =>
              (cell.warning = " " /\ (ColorEnabled => cell.color = "green"))

\* A cell at exactly the default threshold has been formatted, in color.
C20_Witness ==
    /\ cell_pc = "done" /\ ColorEnabled
    /\ cell_args.threshold = COVERAGE_THRESHOLD
    /\ cell.percent = COVERAGE_THRESHOLD
    /\ cell.warning = " " /\ cell.color = "green"

\* The sum of metric m's count k over the listed files with an index in J.
RECURSIVE SumListed(_, _, _)
SumListed(J, m, k) ==
    IF J = {} THEN 0
    ELSE LET j == CHOOSE i \in J : TRUE
         IN individual_files[j].stats[m][k] + SumListed(J \ {j}, m, k)

\* The listed files under <root of kind>/<name>/.
ListedUnder(kind, name) ==
    {j \in 1..Len(individual_files) :
        startswith(individual_files[j].path, <<KindRoot(kind), "/">> \o name \o <<"/">>)}

\* The files of the source tree without a record in the instrumented data.
Unrecorded ==
    {n \in 1..Len(ProjectRsFiles) :
        \A i \in 1..Len(files_data) : RelPath(i) # ProjectRsFiles[n].rel}

\* C21: after the expansion every source file under libs/ or modules/ without
\* a record is listed once, with covered = 0 for every metric and its
\* non-blank line count as the total of lines; one group stands for its
\* (kind, name); and every group's and the total's counts are the sums over
\* the files listed for them.
C21_ExpansionSums ==
    (agg_pc = "report" /\ expand_to_project) =>
        /\ \A n \in Unrecorded :
              LET rel == ProjectRsFiles[n].rel
                  kind == IF rel[1] = "libs" THEN "lib" ELSE "module"
              IN /\ Cardinality({j \in 1..Len(individual_files) :
                                    individual_files[j].path = rel}) = 1
                 /\ \A j \in 1..Len(individual_files) :
                       individual_files[j].path = rel =>
                         individual_files[j].stats =
                            [m \in Metrics |->
                               [covered |-> 0,
                                total |-> IF m = "lines" THEN ProjectRsFiles[n].loc ELSE 0]]
                 /\ Cardinality({i \in 1..Len(groups) :
                                    groups[i].type = kind /\ groups[i].name = <<rel[3]>>}) = 1
        /\ \A i \in 1..Len(groups) : \A m \in Metrics : \A k \in {"covered", "total"} :
              groups[i].stats[m][k] =
                 SumListed(ListedUnder(groups[i].type, groups[i].name), m, k)
        /\ \A m \in Metrics : \A k \in {"covered", "total"} :
              total_stats[m][k] = SumListed(1..Len(individual_files), m, k)

\* C22: no report artifact is ever left half-written: whenever report
\* generation has failed or was interrupted, every artifact this run began to
\* write is complete.
C22_NoPartialArtifact ==
    \A a \in Artifacts : a \in partial => a \in written

\* C23: a skip-build run that finds no coverage data of an earlier run does not
\* end in an error: once past the prerequisite checks, and unless a write is
\* cut short, it ends with exit status 0 and the whole report written.
C23_SkipBuildWithoutData ==
    (mode = "unit" /\ skip_build /\ ~prior_data /\ pc = "exit"
       /\ fail_at \notin PrerequisiteFailures /\ partial = {}) =>
        (exit_code = 0 /\ written = Artifacts /\ fail_at = "none")

\* A bind address that is missing or malformed: no key, no ':', or a port that
\* is not a number.
BadBindAddr(value) ==
    /\ value \in BindAddrs
    /\ \/ ~value.present
       \/ \A i \in 1..Len(value.tokens) : value.tokens[i] # ":"
       \/ value.tokens[Len(value.tokens)] \notin {"8080", "8087"}

\* C24: with a config file whose bind address is missing or malformed, the
\* run ends in a fatal error at start_instrumented_server, before any server
\* process is started, and no port is assumed in its place.
C24_BadBindAddrFatal ==
    BadBindAddr(config_bind_addr) =>
        /\ pc = "exit" /\ exit_code = 1 /\ fail_at = "parse_bind_addr_port"
        /\ port = 0
        /\ leader = "none"

\* C25: every signal stop_server sends is delivered only to processes of the
\* server's own process group (or to the server process itself); neither the
\* orchestrator nor an unrelated process receives the interrupt or the kill.
C25_SignalsStayInGroup ==
    \A i \in 1..Len(sent) : Delivered(sent[i][3]) \subseteq {"leader", "child"}

\* C27: stop_server begins with the graceful interrupt to the process group
\* (the first signal of a stop of a live session is SIGINT to the group), and
\* any later signal of the call is the kill, sent at the end of the drain wait
\* to a process that has not exited; when the process has exited within the
\* drain wait, the wait returns and no signal follows.
C27_GracefulThenKillOnTimeout ==
    [][ /\ (stop_pc = "sigint" /\ stop_pc' # "sigint" /\ leader \in {"running", "zombie"}
              => sent' = Append(sent, <<stop_calls, "SIGINT", "group">>))
        /\ (stop_pc # "sigint" /\ sent' # sent
              => /\ stop_pc = "wait" /\ leader = "running"
                 /\ sent' = Append(sent, <<stop_calls, "SIGKILL", "group">>)
                 /\ sent[Len(sent)] = <<stop_calls, "SIGINT", "group">>)
        /\ (stop_pc = "wait" /\ leader # "running" => sent' = sent)
      ]_vars

\* stop_server has returned for a process that exited within the drain wait:
\* the interrupt is the only signal sent.
C27_Witness ==
    /\ stop_pc = "returned" /\ stop_calls = 1 /\ leader = "reaped"
    /\ sent = <<<<1, "SIGINT", "group">>>>

\* C26: a cell carries a color only when color is requested and the terminal
\* is capable: none when standard output is not a terminal, when NO_COLOR is
\* set, or when TERM is "dumb".
C26_NoColorWhenIncapable ==
    cell_pc = "done" =>
        ((\/ ~cell_args.use_color
          \/ ~cell_args.isatty
          \/ cell_args.NO_COLOR # ""
          \/ cell_args.TERM = <<"dumb">>) => cell.color = "none")

\* C28: a server cmd_e2e started has been terminated and waited for when the
\* command exits, on every exit path, the readiness timeout after the start
\* included.
C28_StartedServerTerminated ==
    (ci_pc = "exit" /\ ci_server # "none") => ci_server = "reaped"

LastCall == mock_calls[Len(mock_calls)]

\* C29: in local mode the global slot is occupied only while a mock server
\* runs: with the slot occupied get_mock_base_url returns a URL, and a
\* start_mock_server whose bind failed leaves the slot empty.
C29_SlotOnlyWhileRunning ==
    /\ (mock_server # "None" /\ ~is_docker_mode) => get_mock_base_url # "RuntimeError"
    /\ (/\ mock_calls # <<>>
        /\ LastCall.op = "start_mock_server"
        /\ LastCall.exc = "OSError") => mock_server = "None"

\* The step is a call of `op` on instance i.
IsCall(op, i) ==
    /\ mock_calls' # <<>>
    /\ mock_calls'[Len(mock_calls')].inst = i
    /\ mock_calls'[Len(mock_calls')].op \in op

InstanceState(i) ==
    <<ms_server[i], ms_thread[i], ms_port[i], serving[i], {s \in sockets : s.owner = i}>>

\* C30: for every MockHTTPServer, under any sequence of calls: it has at
\* most one listening socket and one serving thread; a start on a running
\* server raises RuntimeError and changes nothing; a stop on a server that is
\* not running raises nothing and changes nothing; after a stop the server,
\* thread and port fields are cleared, get_port and get_base_url raise, and
\* nothing listens or serves for it.
C30_StartStopStateMachine ==
    /\ [](\A i \in Instances :
            /\ Cardinality({s \in sockets : s.owner = i}) <= 1
            /\ serving[i] <= 1
            /\ (ms_server[i] # "None") = (serving[i] = 1)
            /\ (ms_server[i] # "None") = ({s \in sockets : s.owner = i} # {}))
    /\ [][\A i \in Instances :
            /\ (IsCall({"start"}, i) /\ ms_server[i] # "None")
                  => /\ mock_calls'[Len(mock_calls')].exc = "RuntimeError"
                     /\ InstanceState(i)' = InstanceState(i)
            /\ (IsCall({"stop", "stop_mock_server"}, i) /\ ms_server[i] = "None")
                  => /\ mock_calls'[Len(mock_calls')].exc = "none"
                     /\ InstanceState(i)' = InstanceState(i)
            /\ IsCall({"stop", "stop_mock_server"}, i)
                  => /\ InstanceState(i)' = <<"None", "None", "None", 0, {}>>
                     /\ get_port(i)' = "RuntimeError"
                     /\ get_base_url(i)' = "RuntimeError"
       ]_vars

\* A server that ran and was stopped has been started again.
C30_Witness ==
    /\ Len(mock_calls) = 2
    /\ mock_calls[1] = [op |-> "stop", inst |-> "standalone", exc |-> "none", running |-> TRUE]
    /\ mock_calls[2] = [op |-> "start", inst |-> "standalone", exc |-> "none", running |-> FALSE]
    /\ ms_server["standalone"] = "HTTPServer" /\ get_port("standalone") = "8080"
    /\ get_base_url("standalone") = "http://127.0.0.1:8080"

====
